---- MODULE Spec2Model ----
(***************************************************************************)
(* Verification model of the smarthop SR920 driver:                        *)
(*   - frame transport (smarthop/sr920/protocol.py): the inbound frame     *)
(*     parser, escaping, the outbound queue and the writer loop;           *)
(*   - transaction engine (smarthop/sr920/sr920.py): get_response and the  *)
(*     classification of inbound commands.                                 *)
(* Bytes are integers 0..255; byte strings are sequences of bytes.         *)
(***************************************************************************)
EXTENDS Integers, Sequences, FiniteSets, TLC

(***************************************************************************)
(* Bounds of the model.                                                    *)
(***************************************************************************)
\* total number of inbound bytes delivered to data_received in one run
MaxStream == 6
\* largest chunk handed to one data_received call
MaxChunk == 3
\* longest byte string escaped and unescaped
MaxPayload == 3
\* number of send_command calls in one run of the writer specification
MaxSends == 6
\* number of commands the module delivers in one run of the engine
MaxReceived == 3
\* number of get_response calls in one run of the engine
MaxCalls == 1
\* largest retry argument of get_response
MaxRetry == 1
\* whole 1024-byte frames in the short firmware images
MaxFrames == 1
\* pages of a node list or link list
MaxPages == 3
\* items of the lists the codec is called with
MaxItems == 2
\* start_radio_measurement calls in one run
MaxStarts == 2
\* MEASURE_RADIO_STATUS_RESPONSE commands that arrive unrequested in one run
MaxMeasurementReceived == 1
\* commands the reader delivers in a run of the threads that take the mutexes
MaxLockReceived == 3
\* calls of each of the two calling threads in such a run
MaxLockCalls == 2

(***************************************************************************)
(* Protocol constants (SR920Protocol.DMY / ESC / SYN).                     *)
(***************************************************************************)
DMY == 255
ESC == 125
SYN == 126

\* the bytes the environment may deliver: the three framing bytes and the two
\* bytes of the id 0x0331 (GET_NODE_LIST_RESPONSE); 0x03 0x03, 0x31 0x31, ...
\* are ids the enumeration does not know
InboundBytes == {DMY, SYN, ESC, 3, 49}

(***************************************************************************)
(* SR920CommandId: the values of the enumeration.                          *)
(***************************************************************************)
GET_LINK_LIST_REQUEST == 818
GET_LINK_LIST_RESPONSE == 819
GET_VERSION_REQUEST == 2042
GET_VERSION_RESPONSE == 2043
MEASURE_RADIO_STATUS_RESPONSE == 835
NETWORK_STATE_CHANGED_NOTIFICATION == 1961
DATA_RECEIVED_NOTIFICATION == 1954

SR920CommandId ==
    { 1920, 1921, 1922, 1923, 1924, 1925, 1926, 1927,        \* 0x0780..0x0787
      1952, 1953, 1954, 1955, 1956, 1957, 1958, 1959, 1960,  \* 0x07A0..0x07A8
      1961,                                                   \* 0x07A9
      2032, 2033, 2034, 2035, 2036, 2037,                    \* 0x07F0..0x07F5
      2042, 2043,                                             \* 0x07FA, 0x07FB
      816, 817, 818, 819, 820, 821, 822, 823, 824, 825,      \* 0x0330..0x0339
      832, 833, 834, 835,                                     \* 0x0340..0x0343
      1858, 1859, 1860, 1861,                                 \* 0x0742..0x0745
      2038, 2039,                                             \* 0x07F6, 0x07F7
      1801, 1802 }                                            \* 0x0709, 0x070A

\* the members whose name ends in NOTIFICATION
NotificationIds == {DATA_RECEIVED_NOTIFICATION, NETWORK_STATE_CHANGED_NOTIFICATION}

(***************************************************************************)
(* Escaping (SR920Protocol._escape / _unescape).                           *)
(***************************************************************************)
\* byte ^ 0x20
Xor20(b) == IF (b \div 32) % 2 = 1 THEN b - 32 ELSE b + 32

\* a variant that escapes SYN only
RECURSIVE EscapeOnlySyn(_)
EscapeOnlySyn(bytes) ==
    IF bytes = <<>> THEN <<>>
    ELSE LET byte == Head(bytes) IN
         (IF byte = SYN THEN <<ESC, Xor20(byte)>> ELSE <<byte>>)
             \o EscapeOnlySyn(Tail(bytes))

RECURSIVE escape(_)
escape(bytes) ==
    IF bytes = <<>> THEN <<>>
    ELSE LET byte == Head(bytes) IN
         (IF byte \in {ESC, SYN} THEN <<ESC, Xor20(byte)>> ELSE <<byte>>)
             \o escape(Tail(bytes))

\* the loop of _unescape: value is the output so far, in_escape the flag
RECURSIVE UnescapeLoop(_, _, _)
UnescapeLoop(bytes, in_escape, value) ==
    IF bytes = <<>> THEN value
    ELSE LET byte == Head(bytes) IN
         IF in_escape THEN UnescapeLoop(Tail(bytes), FALSE, Append(value, Xor20(byte)))
         ELSE IF byte = ESC THEN UnescapeLoop(Tail(bytes), TRUE, value)
         ELSE UnescapeLoop(Tail(bytes), FALSE, Append(value, byte))

unescape(bytes) == UnescapeLoop(bytes, FALSE, <<>>)

(***************************************************************************)
(* SR920Command.parse, as far as the frame transport depends on it: the    *)
(* command id is read big-endian from the first two bytes (int.from_bytes  *)
(* of fewer bytes reads what is there) and looked up in the enumeration,   *)
(* which raises ValueError for a value that is no member.  The payload is  *)
(* kept as the bytes after the id.                                         *)
(***************************************************************************)
IntFromBytes(bytes) ==
    IF Len(bytes) = 0 THEN 0
    ELSE IF Len(bytes) = 1 THEN bytes[1]
    ELSE bytes[1] * 256 + bytes[2]

parse(bytes) ==
    LET value == IntFromBytes(SubSeq(bytes, 1, IF Len(bytes) < 2 THEN Len(bytes) ELSE 2)) IN
    IF value \notin SR920CommandId
    THEN [raised |-> TRUE, command_id |-> value, payload |-> <<>>]
    ELSE [raised |-> FALSE, command_id |-> value,
          payload |-> IF Len(bytes) > 2 THEN SubSeq(bytes, 3, Len(bytes)) ELSE <<>>]

(***************************************************************************)
(* The frame parser (SR920Protocol.data_received).  A parser is a record   *)
(*   buffer, in_dummy, in_command : the fields of SR920Protocol            *)
(*   handled : the commands passed to the command-received handler so far  *)
(*   alive   : FALSE once data_received has raised; the reader loop that   *)
(*             calls it then ends and reports connection_lost(exc)         *)
(***************************************************************************)
NewParser ==
    [buffer |-> <<>>, in_dummy |-> FALSE, in_command |-> FALSE,
     handled |-> <<>>, alive |-> TRUE]

\* a variant that keeps what IDLE has buffered when a DMY or SYN comes
ProcessByteKeepsBuffer(p, byte, handler) ==
    IF p.in_dummy THEN
        IF byte = SYN THEN [p EXCEPT !.buffer = <<>>, !.in_dummy = FALSE]
        ELSE p
    ELSE IF p.in_command THEN
        IF byte = SYN THEN
            LET cmd_received == parse(unescape(p.buffer)) IN
            IF cmd_received.raised THEN [p EXCEPT !.alive = FALSE]
            ELSE [p EXCEPT !.handled = IF handler
                                        THEN Append(@, [command_id |-> cmd_received.command_id,
                                                        payload |-> cmd_received.payload])
                                        ELSE @,
                           !.buffer = <<>>,
                           !.in_command = FALSE]
        ELSE [p EXCEPT !.buffer = Append(@, byte)]
    ELSE
        IF byte \in {DMY, SYN} THEN
            [p EXCEPT !.in_dummy = (byte = DMY),
                      !.in_command = (byte = SYN)]
        ELSE [p EXCEPT !.buffer = Append(@, byte)]

\* the body of the for loop, for one byte; handler says whether a
\* command-received handler is registered
ProcessByte(p, byte, handler) ==
    IF p.in_dummy THEN
        IF byte = SYN THEN [p EXCEPT !.buffer = <<>>, !.in_dummy = FALSE]
        ELSE p
    ELSE IF p.in_command THEN
        IF byte = SYN THEN
            LET cmd_received == parse(unescape(p.buffer)) IN
            IF cmd_received.raised THEN [p EXCEPT !.alive = FALSE]
            ELSE [p EXCEPT !.handled = IF handler
                                        THEN Append(@, [command_id |-> cmd_received.command_id,
                                                        payload |-> cmd_received.payload])
                                        ELSE @,
                           !.buffer = <<>>,
                           !.in_command = FALSE]
        ELSE [p EXCEPT !.buffer = Append(@, byte)]
    ELSE
        IF byte \in {DMY, SYN} THEN
            [p EXCEPT !.buffer = <<>>,
                      !.in_dummy = (byte = DMY),
                      !.in_command = (byte = SYN)]
        ELSE [p EXCEPT !.buffer = Append(@, byte)]

\* one call data_received(bytes): the for loop; an exception leaves the loop
\* and the rest of the chunk is never looked at
RECURSIVE DataReceivedLoop(_, _, _)
DataReceivedLoop(p, bytes, handler) ==
    IF bytes = <<>> \/ ~p.alive THEN p
    ELSE DataReceivedLoop(ProcessByte(p, Head(bytes), handler), Tail(bytes), handler)

\* a variant that starts every call with an empty buffer
DataReceivedFreshBuffer(p, bytes, handler) ==
    DataReceivedLoop([p EXCEPT !.buffer = <<>>], bytes, handler)

DataReceived(p, bytes, handler) == DataReceivedLoop(p, bytes, handler)

\* the same bytes delivered one byte per call, as long as the reader lives
RECURSIVE OneBytePerCall(_, _, _)
OneBytePerCall(p, bytes, handler) ==
    IF bytes = <<>> \/ ~p.alive THEN p
    ELSE OneBytePerCall(DataReceived(p, <<Head(bytes)>>, handler), Tail(bytes), handler)

(***************************************************************************)
(* SR920Command.to_bytes: the id, big-endian in two bytes, followed by the *)
(* template's fields.  The templates of the two requests used here hold    *)
(* nothing but int fields; their shapes are the ones the byte vectors of   *)
(* the command tests show.                                                 *)
(***************************************************************************)
NoParameters == [name \in {} |-> 0]

\* int.to_bytes(length, byteorder)
RECURSIVE IntToBytes(_, _, _)
IntToBytes(value, length, byteorder) ==
    IF length = 0 THEN <<>>
    ELSE IF byteorder = "little"
         THEN <<value % 256>> \o IntToBytes(value \div 256, length - 1, byteorder)
         ELSE IntToBytes(value \div 256, length - 1, byteorder) \o <<value % 256>>

\* commands.json: GET_VERSION_REQUEST has no parameters (b"\x07\xfa" alone is
\* what the version query sends); GET_LINK_LIST_REQUEST {seq_no: 1} is
\* b"\x03\x32\x01\x00"
get_template(command_id) ==
    IF command_id = GET_LINK_LIST_REQUEST
    THEN <<[name |-> "seq_no", type |-> "int", length |-> 2, byteorder |-> "little"]>>
    ELSE <<>>

\* _pack_parameters, for templates of int fields
RECURSIVE pack_parameters(_, _)
pack_parameters(parameters, templates) ==
    IF templates = <<>> THEN <<>>
    ELSE LET template == Head(templates) IN
         IntToBytes(parameters[template.name], template.length, template.byteorder)
             \o pack_parameters(parameters, Tail(templates))

to_bytes(cmd) ==
    IntToBytes(cmd.command_id, 2, "big")
        \o pack_parameters(cmd.parameters, get_template(cmd.command_id))

(***************************************************************************)
(* The outbound side of SR920Protocol: the queue and the frame the writer  *)
(* builds.                                                                 *)
(***************************************************************************)
\* queue.Queue(5)
QueueMaxSize == 5

\* a variant that makes room by discarding the oldest queued command
PutNowaitDropOldest(queue, cmd) ==
    IF Len(queue) >= QueueMaxSize THEN Append(Tail(queue), cmd) ELSE Append(queue, cmd)

\* queue.put_nowait inside send_command: queue.Full is caught and logged
PutNowait(queue, cmd) ==
    IF Len(queue) >= QueueMaxSize THEN queue ELSE Append(queue, cmd)

\* a variant that writes the payload unescaped
FrameUnescaped(cmd) ==
    <<DMY, DMY, DMY, DMY, DMY, DMY, DMY, SYN>> \o <<SYN>> \o to_bytes(cmd) \o <<SYN>>

\* header + SYN + _escape(cmd_to_send.to_bytes()) + SYN
OutboundFrame(cmd) ==
    <<DMY, DMY, DMY, DMY, DMY, DMY, DMY, SYN>> \o <<SYN>> \o escape(to_bytes(cmd)) \o <<SYN>>

(***************************************************************************)
(* The transaction engine (SR920.get_response, SR920._on_command_received).*)
(* An entry of the pending buffer is a received command; uid stands for    *)
(* the identity of the Python object (list.remove compares by identity,    *)
(* SR920Command defines no __eq__).                                        *)
(***************************************************************************)
IsNotification(command_id) == command_id \in NotificationIds

\* a variant that buffers every command
OnCommandReceivedBufferAll(cs, cmd_received, handler) ==
    [received_commands |-> Append(cs.received_commands, cmd_received),
     notified |-> cs.notified]

\* _on_command_received: cs holds the pending buffer and the log of the
\* commands handed to the notification handler
OnCommandReceived(cs, cmd_received, handler) ==
    IF IsNotification(cmd_received.command_id)
    THEN [received_commands |-> cs.received_commands,
          notified |-> IF handler THEN Append(cs.notified, cmd_received) ELSE cs.notified]
    ELSE [received_commands |-> Append(cs.received_commands, cmd_received),
          notified |-> cs.notified]

\* a remove that leaves the list as it is
RemoveNothing(list, x) == list

\* list.remove(x): removes the first item equal to x
RemoveFirst(list, x) ==
    LET first == CHOOSE i \in 1..Len(list) :
                     list[i] = x /\ \A j \in 1..(i - 1) : list[j] # x
    IN SubSeq(list, 1, first - 1) \o SubSeq(list, first + 1, Len(list))

\* "for command in self._received_commands: if ...: remove(command)".  The
\* list iterator is an index into the list: i is the index (from 1) of the
\* next item it yields, and a removal shifts the later items down under it.
RECURSIVE PurgeLoop(_, _, _)
PurgeLoop(list, i, response_id) ==
    IF i > Len(list) THEN list
    ELSE IF list[i].command_id = response_id
         THEN PurgeLoop(RemoveFirst(list, list[i]), i + 1, response_id)
         ELSE PurgeLoop(list, i + 1, response_id)

\* a purge that does not compare the id: it empties the list
RemoveOldResponsesAnyId(list, response_id) == <<>>

RemoveOldResponses(list, response_id) == PurgeLoop(list, 1, response_id)

\* a variant of the polling scan that takes the first response with the id
ScanLoopIgnoreSeqNo(list, i, request, response_id) ==
    IF \E j \in 1..Len(list) : list[j].command_id = response_id
    THEN [outcome |-> "return",
          index |-> CHOOSE j \in 1..Len(list) :
                        /\ list[j].command_id = response_id
                        /\ \A k \in 1..(j - 1) : list[k].command_id # response_id]
    ELSE [outcome |-> "none", index |-> 0]

\* one pass of "for response in self._received_commands" in the polling
\* loop, from index i: the outcome is "return" (of list[index]), "KeyError"
\* (the response carries seq_no, the request does not) or "none"
RECURSIVE ScanLoop(_, _, _, _)
ScanLoop(list, i, request, response_id) ==
    IF i > Len(list) THEN [outcome |-> "none", index |-> 0]
    ELSE LET response == list[i] IN
         IF response.command_id # response_id
         THEN ScanLoop(list, i + 1, request, response_id)
         ELSE IF "seq_no" \in DOMAIN response.parameters
              THEN IF "seq_no" \notin DOMAIN request.parameters
                   THEN [outcome |-> "KeyError", index |-> i]
                   ELSE IF request.parameters.seq_no = response.parameters.seq_no
                        THEN [outcome |-> "return", index |-> i]
                        ELSE ScanLoop(list, i + 1, request, response_id)
              ELSE [outcome |-> "return", index |-> i]

\* a variant that retries once more than asked
RetryAgainOffByOne(retry) == retry >= 0

\* "if retry > 0" after a round timed out
RetryAgain(retry) == retry > 0

\* all byte strings over S of length 1..n
RECURSIVE SeqsUpTo(_, _)
SeqsUpTo(S, n) ==
    IF n = 0 THEN {}
    ELSE LET shorter == SeqsUpTo(S, n - 1) IN
         {<<b>> : b \in S} \cup shorter \cup {Append(s, b) : s \in shorter, b \in S}

VARIABLES
    \* ---- frame parser
    parser,                    \* the SR920Protocol instance's parser fields
    command_received_handler,  \* SR920Protocol._command_received_handler is set
    byte_parser,               \* a second instance fed the same bytes one per call
    data,                      \* the argument of the latest data_received call
    fed,                       \* number of bytes delivered so far
    \* ---- escaping
    payload,                   \* a byte string
    escaped,                   \* _escape(payload), once computed
    unescaped,                 \* _unescape(escaped), once computed
    esc_pc,                    \* "input", "escaped", "unescaped"
    \* ---- outbound queue and writer
    transport,                 \* SR920Protocol._transport is set
    queue_out,                 \* SR920Protocol._queue_out
    writer_pc,                 \* position of the writer thread
    cmd_to_send,               \* the writer's local: the command it dequeued
    written,                   \* the transport.write calls so far: [cmd, bytes]
    sends,                     \* number of send_command calls so far
    dropped,                   \* tags of the commands send_command discarded
    \* ---- transaction engine
    received_commands,         \* SR920._received_commands
    notification_handler,      \* SR920._notification_handler is set
    notified,                  \* the commands handed to the notification handler
    inbound,                   \* the latest command handed to _on_command_received
    pc,                        \* position of each get_response caller
    request,                   \* its request argument
    retry,                     \* its retry argument (of the innermost call)
    result,                    \* what the outermost call returned
    call                       \* bookkeeping of the outermost call

frameVars == <<parser, command_received_handler, byte_parser, data, fed>>
escVars == <<payload, escaped, unescaped, esc_pc>>
writerVars == <<transport, queue_out, writer_pc, cmd_to_send, written, sends, dropped>>
engineVars == <<received_commands, notification_handler, notified, inbound,
                pc, request, retry, result, call>>

VARIABLES
    \* ---- firmware update (locals of one SR920.update call)
    upd_pc,                    \* position in update
    force,                     \* the force argument
    version,                   \* the version string of the image
    data_len,                  \* len(data)
    seq_no,                    \* the closure's seq_no
    frame_i,                   \* i of "for i in trange(0, len(data), 1024)"
    page_no,                   \* page_no
    upd_request,               \* the request get_response was called with
    upd_retry,                 \* retry of the innermost get_response call
    upd_wait,                  \* update is inside get_response
    upd_result,                \* what update returned: "none" (not yet), "True", "False"
    upd_sent,                  \* the latest command handed to send_command
    sent_count,                \* sub-commands sent, retransmissions not counted
    transmissions,             \* send_command calls for the latest sub-command
    sent_subs,                 \* names of the sub-commands sent so far
    failed_subs,               \* sub-commands whose get_response gave None or status # 0
    last_response,             \* what the latest finished get_response returned
    \* ---- radio status measurement
    measurement,               \* SR920._measurement: None or the session
    measurement_completed,     \* SR920._measurement_completed is set
    worker,                    \* the measurement worker threads, one per start call
    client,                    \* the thread that calls start / abort / get_result
    \* ---- paged lists
    list_pc,                   \* position in get_node_list / get_link_list
    list_kind,                 \* "node" or "link"
    list_seq_no,               \* seq_no of the innermost call
    list_frames,               \* the pages of the calls waiting for their follow-up page
    list_retry,                \* retry of the innermost get_response call
    list_result,               \* what the outermost call returned
    list_requests,             \* the seq_no of every request issued
    list_pages,                \* the result and list of every page get_response returned
    \* ---- codec calls
    codec_pc,                  \* the codec call made last
    codec_in,                  \* its arguments
    codec_out,                 \* what it returned or raised
    \* ---- the two mutexes and the threads that take them
    received_commands_lock,    \* the thread that holds SR920._received_commands_lock, or "free"
    measurement_lock,          \* the thread that holds SR920._measurement_lock, or "free"
    thread,                    \* the position and the locals of each of these threads
    accessed                   \* the accesses to the shared fields made by the latest step

updateVars == <<upd_pc, force, version, data_len, seq_no, frame_i, page_no,
                upd_request, upd_retry, upd_wait, upd_result, upd_sent, sent_count,
                transmissions, sent_subs, failed_subs, last_response>>

\* the state of the workflows built on get_response
measurementVars == <<measurement, measurement_completed, worker, client>>

listVars == <<list_pc, list_kind, list_seq_no, list_frames, list_retry, list_result,
              list_requests, list_pages>>

codecVars == <<codec_pc, codec_in, codec_out>>

lockVars == <<received_commands_lock, measurement_lock, thread, accessed>>

workflowVars == <<updateVars, measurementVars, listVars, codecVars, lockVars>>

\* what the firmware update leaves alone
notUpdateVars == <<frameVars, escVars, writerVars, engineVars, measurementVars, listVars,
                   codecVars, lockVars>>

\* what the measurement leaves alone, the engine aside
notMeasurementVars == <<frameVars, escVars, writerVars, updateVars, listVars, codecVars,
                        lockVars>>

\* what the paged lists leave alone
notListVars == <<frameVars, escVars, writerVars, engineVars, updateVars, measurementVars,
                 codecVars, lockVars>>

\* what the codec calls leave alone
notCodecVars == <<frameVars, escVars, writerVars, engineVars, updateVars, measurementVars,
                  listVars, lockVars>>

\* what the threads of the two mutexes leave alone, the pending buffer and
\* the measurement session aside
notLockVars == <<frameVars, escVars, writerVars, updateVars, listVars, codecVars>>

vars == <<frameVars, escVars, writerVars, engineVars, workflowVars>>

(***************************************************************************)
(* Frame parser.                                                           *)
(***************************************************************************)
FrameInit ==
    /\ parser = NewParser
    /\ byte_parser = NewParser
    /\ command_received_handler = FALSE
    /\ data = <<>>
    /\ fed = 0

\* SR920Protocol.set_command_received_handler (called by SR920.open)
set_command_received_handler ==
    /\ ~command_received_handler
    /\ command_received_handler' = TRUE
    /\ UNCHANGED <<parser, byte_parser, data, fed>>
    /\ UNCHANGED <<escVars, writerVars, engineVars, workflowVars>>

\* the reader thread delivers the next chunk of the inbound stream
data_received ==
    /\ parser.alive
    /\ \E chunk \in SeqsUpTo(InboundBytes, MaxChunk) :
          /\ fed + Len(chunk) <= MaxStream
          /\ data' = chunk
          /\ fed' = fed + Len(chunk)
          /\ parser' = DataReceived(parser, chunk, command_received_handler)
          /\ byte_parser' = OneBytePerCall(byte_parser, chunk, command_received_handler)
    /\ UNCHANGED command_received_handler
    /\ UNCHANGED <<escVars, writerVars, engineVars, workflowVars>>

(***************************************************************************)
(* Escaping, applied to byte strings drawn from EscapeBytes.               *)
(***************************************************************************)
\* ESC, SYN, the two bytes escaping produces (0x5D, 0x5E), DMY, a plain byte
EscapeBytes == {ESC, SYN, 93, 94, DMY, 1}

EscInit ==
    /\ payload \in SeqsUpTo(EscapeBytes, MaxPayload) \cup {<<>>}
    /\ escaped = <<>>
    /\ unescaped = <<>>
    /\ esc_pc = "input"

EscIdle ==
    /\ payload = <<>>
    /\ escaped = <<>>
    /\ unescaped = <<>>
    /\ esc_pc = "input"

do_escape ==
    /\ esc_pc = "input"
    /\ escaped' = escape(payload)
    /\ esc_pc' = "escaped"
    /\ UNCHANGED <<payload, unescaped>>
    /\ UNCHANGED <<frameVars, writerVars, engineVars, workflowVars>>

do_unescape ==
    /\ esc_pc = "escaped"
    /\ unescaped' = unescape(escaped)
    /\ esc_pc' = "unescaped"
    /\ UNCHANGED <<payload, escaped>>
    /\ UNCHANGED <<frameVars, writerVars, engineVars, workflowVars>>

(***************************************************************************)
(* Outbound queue and writer thread.                                       *)
(***************************************************************************)
NoCommand == [command_id |-> 0, parameters |-> NoParameters, tag |-> 0]

\* before connection_made
WriterInit ==
    /\ transport = FALSE
    /\ queue_out = <<>>
    /\ writer_pc = "not started"
    /\ cmd_to_send = NoCommand
    /\ written = <<>>
    /\ sends = 0
    /\ dropped = {}

\* after connection_made, as SR920.open leaves it
WriterStarted ==
    /\ transport = TRUE
    /\ queue_out = <<>>
    /\ writer_pc = "while"
    /\ cmd_to_send = NoCommand
    /\ written = <<>>
    /\ sends = 0
    /\ dropped = {}

connection_made ==
    /\ writer_pc = "not started"
    /\ transport' = TRUE
    /\ writer_pc' = "while"
    /\ UNCHANGED <<queue_out, cmd_to_send, written, sends, dropped>>
    /\ UNCHANGED <<frameVars, escVars, engineVars, workflowVars>>

\* connection_lost clears the handle (and then joins the writer)
connection_lost ==
    /\ transport
    /\ transport' = FALSE
    /\ UNCHANGED <<queue_out, writer_pc, cmd_to_send, written, sends, dropped>>
    /\ UNCHANGED <<frameVars, escVars, engineVars, workflowVars>>

\* the effect of send_command(cmd) on the writer's variables; the tag is the
\* number of the call and stands for the identity of the command object
SendCommand(cmd) ==
    LET tagged == [command_id |-> cmd.command_id, parameters |-> cmd.parameters,
                   tag |-> sends + 1] IN
    /\ sends' = sends + 1
    /\ queue_out' = PutNowait(queue_out, tagged)
    /\ dropped' = IF queue_out' = queue_out THEN dropped \cup {sends + 1} ELSE dropped
    /\ UNCHANGED <<transport, writer_pc, cmd_to_send, written>>

\* the commands the callers of the writer specification submit: no
\* parameters; seq_no = 1; seq_no = 0x7E7D, whose bytes are ESC and SYN
WriterCommands ==
    { [command_id |-> GET_VERSION_REQUEST, parameters |-> NoParameters],
      [command_id |-> GET_LINK_LIST_REQUEST, parameters |-> [seq_no |-> 1]],
      [command_id |-> GET_LINK_LIST_REQUEST, parameters |-> [seq_no |-> 32381]] }

send_command ==
    /\ sends < MaxSends
    /\ \E cmd \in WriterCommands : SendCommand(cmd)
    /\ UNCHANGED <<frameVars, escVars, engineVars, workflowVars>>

\* a loop that goes on whatever the handle is
writer_while_forever ==
    /\ writer_pc = "while"
    /\ writer_pc' = "dequeue"
    /\ UNCHANGED <<transport, queue_out, cmd_to_send, written, sends, dropped>>
    /\ UNCHANGED <<frameVars, escVars, engineVars, workflowVars>>

\* "while self._transport:"
writer_while ==
    /\ writer_pc = "while"
    /\ writer_pc' = IF transport THEN "dequeue" ELSE "exit"
    /\ UNCHANGED <<transport, queue_out, cmd_to_send, written, sends, dropped>>
    /\ UNCHANGED <<frameVars, escVars, engineVars, workflowVars>>

\* "if not self._queue_out.empty(): cmd_to_send = self._queue_out.get_nowait()"
\* (the writer is the only consumer, so get_nowait finds what empty() saw)
writer_dequeue ==
    /\ writer_pc = "dequeue"
    /\ IF queue_out = <<>>
       THEN /\ writer_pc' = "while"
            /\ UNCHANGED <<queue_out, cmd_to_send>>
       ELSE /\ cmd_to_send' = Head(queue_out)
            /\ queue_out' = Tail(queue_out)
            /\ writer_pc' = "write"
    /\ UNCHANGED <<transport, written, sends, dropped>>
    /\ UNCHANGED <<frameVars, escVars, engineVars, workflowVars>>

\* "self._transport.write(data)": the handle is read again here; on a
\* cleared handle the attribute lookup raises and ends the thread
writer_write ==
    /\ writer_pc = "write"
    /\ IF transport
       THEN /\ written' = Append(written, [cmd |-> cmd_to_send,
                                           bytes |-> OutboundFrame(cmd_to_send)])
            /\ writer_pc' = "while"
       ELSE /\ writer_pc' = "error"
            /\ UNCHANGED written
    /\ UNCHANGED <<transport, queue_out, cmd_to_send, sends, dropped>>
    /\ UNCHANGED <<frameVars, escVars, engineVars, workflowVars>>

(***************************************************************************)
(* Transaction engine.                                                     *)
(***************************************************************************)
Callers == {1}

None == [kind |-> "None"]

\* the commands the module sends in the engine specification
InboundCommands ==
    { [command_id |-> GET_LINK_LIST_RESPONSE, parameters |-> [result |-> 0, seq_no |-> 1]],
      [command_id |-> GET_LINK_LIST_RESPONSE, parameters |-> [result |-> 0, seq_no |-> 2]],
      [command_id |-> GET_VERSION_RESPONSE, parameters |-> [result |-> 0]],
      [command_id |-> NETWORK_STATE_CHANGED_NOTIFICATION, parameters |-> [state |-> 3]] }

\* the requests the callers pass to get_response
Requests ==
    { [command_id |-> GET_LINK_LIST_REQUEST, parameters |-> [seq_no |-> 1]],
      [command_id |-> GET_LINK_LIST_REQUEST, parameters |-> [seq_no |-> 2]],
      [command_id |-> GET_VERSION_REQUEST, parameters |-> NoParameters] }

\* call[t]: retry0 the retry argument of the outermost call; submitted the
\* requests passed to send_command; timeouts the rounds that timed out;
\* purged_at the number of commands received when the latest purge ran;
\* calls the number of get_response calls made
NewCall == [retry0 |-> 0, submitted |-> <<>>, timeouts |-> 0, purged_at |-> 0,
            calls |-> 0]

\* no command received yet
NoInbound == [command_id |-> 0, parameters |-> NoParameters, uid |-> 0]

EngineInit ==
    /\ received_commands = <<>>
    /\ notification_handler = FALSE
    /\ notified = <<>>
    /\ inbound = NoInbound
    /\ pc = [t \in Callers |-> "idle"]
    /\ request = [t \in Callers |-> [command_id |-> GET_VERSION_REQUEST,
                                     parameters |-> NoParameters]]
    /\ retry = [t \in Callers |-> 0]
    /\ result = [t \in Callers |-> None]
    /\ call = [t \in Callers |-> NewCall]

set_notification_handler ==
    /\ ~notification_handler
    /\ notification_handler' = TRUE
    /\ UNCHANGED <<received_commands, notified, inbound, pc, request, retry, result, call>>
    /\ UNCHANGED <<frameVars, escVars, writerVars, workflowVars>>

\* the reader thread hands a decoded command to _on_command_received
on_command_received ==
    /\ inbound.uid < MaxReceived
    /\ \E cmd \in InboundCommands :
          LET cmd_received == [command_id |-> cmd.command_id,
                               parameters |-> cmd.parameters,
                               uid |-> inbound.uid + 1]
              after == OnCommandReceived(
                           [received_commands |-> received_commands, notified |-> notified],
                           cmd_received, notification_handler)
          IN /\ inbound' = cmd_received
             /\ received_commands' = after.received_commands
             /\ notified' = after.notified
    /\ UNCHANGED <<notification_handler, pc, request, retry, result, call>>
    /\ UNCHANGED <<frameVars, escVars, writerVars, workflowVars>>

\* SR920CommandId(request_id.value + 1)
ResponseId(req) == req.command_id + 1

\* a caller enters get_response(req, r)
get_response(t) ==
    /\ pc[t] \in {"idle", "returned"}
    /\ call[t].calls < MaxCalls
    /\ \E req \in Requests, r \in 0..MaxRetry :
          /\ request' = [request EXCEPT ![t] = req]
          /\ retry' = [retry EXCEPT ![t] = r]
          /\ call' = [call EXCEPT ![t] = [retry0 |-> r, submitted |-> <<>>,
                                           timeouts |-> 0, purged_at |-> 0,
                                           calls |-> @.calls + 1]]
    /\ result' = [result EXCEPT ![t] = None]
    /\ pc' = [pc EXCEPT ![t] = "purge"]
    /\ UNCHANGED <<received_commands, notification_handler, notified, inbound>>
    /\ UNCHANGED <<frameVars, escVars, writerVars, workflowVars>>

\* "with self._received_commands_lock: # remove old responses"
remove_old_responses(t) ==
    /\ pc[t] = "purge"
    /\ received_commands' = RemoveOldResponses(received_commands, ResponseId(request[t]))
    /\ call' = [call EXCEPT ![t].purged_at = inbound.uid]
    /\ pc' = [pc EXCEPT ![t] = "send"]
    /\ UNCHANGED <<notification_handler, notified, inbound, request, retry, result>>
    /\ UNCHANGED <<frameVars, escVars, writerVars, workflowVars>>

\* "self._protocol.send_command(request)", then the timer is started
submit_request(t) ==
    /\ pc[t] = "send"
    /\ SendCommand(request[t])
    /\ call' = [call EXCEPT ![t].submitted = Append(@, request[t])]
    /\ pc' = [pc EXCEPT ![t] = "wait"]
    /\ UNCHANGED <<received_commands, notification_handler, notified, inbound,
                   request, retry, result>>
    /\ UNCHANGED <<frameVars, escVars, workflowVars>>

\* one pass of the polling loop that finds something: event_timeout.wait(0.1)
\* returned False and the scan under the lock returns a response or raises
poll(t) ==
    /\ pc[t] = "wait"
    /\ LET found == ScanLoop(received_commands, 1, request[t], ResponseId(request[t])) IN
       /\ found.outcome # "none"
       /\ IF found.outcome = "return"
          THEN /\ received_commands' =
                      RemoveFirst(received_commands, received_commands[found.index])
               /\ result' = [result EXCEPT ![t] =
                      [kind |-> "response", command |-> received_commands[found.index]]]
          ELSE /\ result' = [result EXCEPT ![t] = [kind |-> "KeyError"]]
               /\ UNCHANGED received_commands
    /\ pc' = [pc EXCEPT ![t] = "returned"]
    /\ UNCHANGED <<notification_handler, notified, inbound, request, retry, call>>
    /\ UNCHANGED <<frameVars, escVars, writerVars, workflowVars>>

\* the timer fired: event_timeout.wait(0.1) returns True and the loop ends.
\* With retry > 0 the function calls itself with retry - 1 and returns what
\* that call returns; otherwise it returns None.
timed_out(t) ==
    /\ pc[t] = "wait"
    /\ call' = [call EXCEPT ![t].timeouts = @ + 1]
    /\ IF RetryAgain(retry[t])
       THEN /\ retry' = [retry EXCEPT ![t] = @ - 1]
            /\ pc' = [pc EXCEPT ![t] = "purge"]
            /\ UNCHANGED result
       ELSE /\ result' = [result EXCEPT ![t] = None]
            /\ pc' = [pc EXCEPT ![t] = "returned"]
            /\ UNCHANGED retry
    /\ UNCHANGED <<received_commands, notification_handler, notified, inbound, request>>
    /\ UNCHANGED <<frameVars, escVars, writerVars, workflowVars>>

(***************************************************************************)
(* Firmware update (SR920.update).                                         *)
(***************************************************************************)
\* "seq_no = (seq_no + 1) % 65536"
SeqNoModulus == 65536
\* "tqdm.trange(0, len(data), 1024, ...)" and "data[i : i + 1024]"
FrameSize == 1024
\* "frame_total // 64" and "frame_total % 64"
FramesPerPage == 64
\* "if len(firmware_bin) < 16" and "data = firmware_bin[:-16]"
TrailerSize == 16
\* the retry get_response uses when update gives none
DefaultRetry == 2

\* a counter that forgets to wrap
NextSeqNoUnbounded(n) == n + 1

\* next_seq_no(): the new value of the closure's seq_no
next_seq_no(n) == (n + 1) % SeqNoModulus

\* Python's "a <= b" on two strings (sequences of code points)
RECURSIVE StrLessEq(_, _)
StrLessEq(a, b) ==
    IF a = <<>> THEN TRUE
    ELSE IF b = <<>> THEN FALSE
    ELSE IF Head(a) # Head(b) THEN Head(a) < Head(b)
    ELSE StrLessEq(Tail(a), Tail(b))

\* a version check that lets an image of the running version through
OlderOnly(image_version, version_current) ==
    image_version # version_current /\ StrLessEq(image_version, version_current)

\* "if version <= version_current": the image is not newer
NotNewer(image_version, version_current) == StrLessEq(image_version, version_current)

\* a check of the response that looks for a missing response only
FailedNoneOnly(response) == response.kind = "None"

\* "if not response or response.parameters["status"] != 0x00"
Failed(response) ==
    \/ response.kind = "None"
    \/ response.status # 0

\* a confirmation that accepts any version the module reports
ConfirmedAnyVersion(image_version, response) == ~Failed(response)

\* "version_updated = get_version()" and
\* "if not version_updated or version != version_updated" (negated)
Confirmed(image_version, response) ==
    /\ ~Failed(response)
    /\ response.version # <<>>
    /\ image_version = response.version

\* the version strings of the model: "01", "02", "10" as code points
Versions == {<<48, 49>>, <<48, 50>>, <<49, 48>>}

\* the lengths of data: empty, one byte, whole frames and one byte more
DataLens ==
    {0, 1} \cup {n * FrameSize + d : n \in 1..MaxFrames, d \in {0, 1}}

\* an image long enough for the sequence number to wrap
LongDataLen == (SeqNoModulus - 1) * FrameSize

\* "range(0, len(data), 1024)" has a value at i
InRange(i, len) == i < len

NoRequest == [sub_command_id |-> "NONE", seq_no |-> -1, page_no |-> -1,
              frame_no |-> -1, last_page |-> -1]

UpdateIdle ==
    /\ upd_pc = "idle"
    /\ force = FALSE
    /\ version = <<>>
    /\ data_len = 0
    /\ seq_no = -1
    /\ frame_i = 0
    /\ page_no = 0
    /\ upd_request = NoRequest
    /\ upd_retry = 0
    /\ upd_wait = FALSE
    /\ upd_result = "none"
    /\ upd_sent = NoRequest
    /\ sent_count = 0
    /\ transmissions = 0
    /\ sent_subs = {}
    /\ failed_subs = {}
    /\ last_response = [kind |-> "pending"]

\* update "return False" / "return True"
UpdateReturn(value) ==
    /\ upd_pc' = "returned"
    /\ upd_result' = IF value THEN "True" ELSE "False"

\* update(firmware_file, force): read the file and split off the trailer
update ==
    /\ upd_pc = "idle"
    /\ \E f \in BOOLEAN, v \in Versions,
          firmware_len \in {TrailerSize - 1} \cup {TrailerSize + n : n \in DataLens}
                               \cup {TrailerSize + LongDataLen} :
          \* the long image carries the version "10"
          /\ firmware_len = TrailerSize + LongDataLen => v = <<49, 48>>
          /\ force' = f
          /\ seq_no' = -1
          /\ IF firmware_len < TrailerSize
             THEN /\ UpdateReturn(FALSE)
                  /\ UNCHANGED <<version, data_len>>
             ELSE /\ version' = v
                  /\ data_len' = firmware_len - TrailerSize
                  /\ upd_pc' = IF f THEN "start" ELSE "get_version"
                  /\ UNCHANGED upd_result
    /\ UNCHANGED <<frame_i, page_no, upd_request, upd_retry, upd_wait, upd_sent,
                   sent_count, transmissions, sent_subs, failed_subs, last_response>>
    /\ UNCHANGED notUpdateVars

\* the sub-command each block of update sends
SubCommand(block) ==
    CASE block = "get_version" -> "GET_VERSION"
      [] block = "start" -> "START"
      [] block = "write" -> "WRITE"
      [] block = "check" -> "CHECK"
      [] block = "reset" -> "RESET"
      [] block = "confirm" -> "GET_VERSION"

UpdateBlocks == {"get_version", "start", "write", "check", "reset", "confirm"}

\* what get_response can return to update: nothing, or a response with a
\* status and, for GET_VERSION with status 0, the version string
NoResponse == [kind |-> "None", status |-> -1, version |-> <<>>]

UpdateResponses(block) ==
    {[kind |-> "response", status |-> 1, version |-> <<>>]}
        \cup (IF block \in {"get_version", "confirm"}
              THEN {[kind |-> "response", status |-> 0, version |-> v] : v \in Versions}
              ELSE {[kind |-> "response", status |-> 0, version |-> <<>>]})

\* the ghost bookkeeping of one send_command call made for update
UpdateSend(req, first) ==
    /\ upd_sent' = req
    /\ sent_count' = IF first THEN sent_count + 1 ELSE sent_count
    /\ transmissions' = IF first THEN 1 ELSE transmissions + 1
    /\ sent_subs' = sent_subs \cup {req.sub_command_id}

\* a block of update builds its parameters, taking next_seq_no(), and calls
\* get_response, whose first round hands the request to send_command
update_get_response ==
    /\ upd_pc \in UpdateBlocks
    /\ ~upd_wait
    /\ LET n == next_seq_no(seq_no)
           frame_total == frame_i \div FrameSize
           page == IF upd_pc = "write" THEN frame_total \div FramesPerPage ELSE page_no
           req == [sub_command_id |-> SubCommand(upd_pc),
                   seq_no |-> n,
                   page_no |-> IF upd_pc = "write" THEN page ELSE -1,
                   frame_no |-> IF upd_pc = "write" THEN frame_total % FramesPerPage ELSE -1,
                   last_page |-> IF upd_pc = "check" THEN page_no ELSE -1]
       IN /\ seq_no' = n
          /\ page_no' = page
          /\ upd_request' = req
          /\ UpdateSend(req, TRUE)
    /\ upd_retry' = DefaultRetry
    /\ upd_wait' = TRUE
    /\ last_response' = [kind |-> "pending"]
    /\ UNCHANGED <<upd_pc, force, version, data_len, frame_i, upd_result, failed_subs>>
    /\ UNCHANGED notUpdateVars

\* update goes on with what get_response returned
UpdateContinue(response) ==
    /\ upd_wait' = FALSE
    /\ last_response' = response
    /\ failed_subs' = IF response.kind = "None" \/ response.status # 0
                      THEN failed_subs \cup {upd_request.sub_command_id}
                      ELSE failed_subs
    /\ CASE upd_pc = "get_version" ->
              /\ IF Failed(response) \/ response.version = <<>>
                 THEN UpdateReturn(FALSE)
                 ELSE IF NotNewer(version, response.version)
                      THEN UpdateReturn(FALSE)
                      ELSE upd_pc' = "start" /\ UNCHANGED upd_result
              /\ UNCHANGED frame_i
         [] upd_pc = "start" ->
              IF Failed(response)
              THEN UpdateReturn(FALSE) /\ UNCHANGED frame_i
              ELSE /\ frame_i' = 0
                   /\ upd_pc' = IF InRange(0, data_len) THEN "write" ELSE "check"
                   /\ UNCHANGED upd_result
         [] upd_pc = "write" ->
              IF Failed(response)
              THEN UpdateReturn(FALSE) /\ UNCHANGED frame_i
              ELSE /\ frame_i' = frame_i + FrameSize
                   /\ upd_pc' = IF InRange(frame_i + FrameSize, data_len)
                                THEN "write" ELSE "check"
                   /\ UNCHANGED upd_result
         [] upd_pc = "check" ->
              /\ IF Failed(response)
                 THEN UpdateReturn(FALSE)
                 ELSE upd_pc' = "reset" /\ UNCHANGED upd_result
              /\ UNCHANGED frame_i
         [] upd_pc = "reset" ->
              /\ IF Failed(response)
                 THEN UpdateReturn(FALSE)
                 ELSE upd_pc' = "confirm" /\ UNCHANGED upd_result
              /\ UNCHANGED frame_i
         [] upd_pc = "confirm" ->
              /\ UpdateReturn(Confirmed(version, response))
              /\ UNCHANGED frame_i

\* get_response finds the response of the sub-command and returns it
update_response ==
    /\ upd_wait
    /\ \E response \in UpdateResponses(upd_pc) : UpdateContinue(response)
    /\ UNCHANGED <<force, version, data_len, seq_no, page_no, upd_request, upd_retry,
                   upd_sent, sent_count, transmissions, sent_subs>>
    /\ UNCHANGED notUpdateVars

\* the round of get_response times out: with retry > 0 the same request is
\* passed to a new round, which sends it again; otherwise None is returned
update_timed_out ==
    /\ upd_wait
    /\ IF RetryAgain(upd_retry)
       THEN /\ upd_retry' = upd_retry - 1
            /\ UpdateSend(upd_request, FALSE)
            /\ UNCHANGED <<upd_pc, upd_wait, upd_result, frame_i, failed_subs,
                           last_response>>
       ELSE /\ UpdateContinue(NoResponse)
            /\ UNCHANGED <<upd_retry, upd_sent, sent_count, transmissions, sent_subs>>
    /\ UNCHANGED <<force, version, data_len, seq_no, page_no, upd_request>>
    /\ UNCHANGED notUpdateVars

(***************************************************************************)
(* Radio status measurement (start / abort / get_result and the worker).   *)
(***************************************************************************)
\* "response and response.parameters["result"] == 0x00" without the result
SimpleResponseAnyResult(response) == response.kind = "response"

\* _simple_response: what it returns for what get_response returned
SimpleResponse(response) ==
    /\ response.kind = "response"
    /\ response.result = 0

Workers == 1..MaxStarts

\* the worker thread has been started and has not finished
Alive(w) == worker[w].pc \in {"poll", "clear", "set"}

\* the destinations argument: none given, one node, two nodes
DestinationInputs == {<<>>, <<"0010">>, <<"0010", "0011">>}

\* the short addresses get_node_list(CONNECTED) reports, or None
NodeLists == {<<>>, <<"0010", "0011">>}

\* "if source in destinations: destinations.remove(source);
\*  destinations.append("0001")"
DefaultDestinations(node_list, source) ==
    IF \E i \in 1..Len(node_list) : node_list[i] = source
    THEN Append(RemoveFirst(node_list, source), "0001")
    ELSE node_list

\* the commands with id MEASURE_RADIO_STATUS_RESPONSE the reader delivers
\* on its own: the report that ends a measurement and a late duplicate of a
\* reply to START_SEND
MeasurementInbound ==
    { [command_id |-> MEASURE_RADIO_STATUS_RESPONSE,
       parameters |-> [result |-> 0, mode |-> "RESULT", count |-> 100]],
      [command_id |-> MEASURE_RADIO_STATUS_RESPONSE,
       parameters |-> [result |-> 0, mode |-> "START_SEND", count |-> 0]] }

\* the index of the first entry the worker's scan stops at, 0 if none
FirstResult(list) ==
    LET hits == { i \in 1..Len(list) :
                     /\ list[i].command_id = MEASURE_RADIO_STATUS_RESPONSE
                     /\ list[i].parameters.mode = "RESULT" }
    IN IF hits = {} THEN 0 ELSE CHOOSE i \in hits : \A j \in hits : i <= j

NoClient == [pc |-> "idle", op |-> "none", destinations |-> <<>>, source |-> "",
             i |-> 0, step |-> "", retry |-> 0, sent |-> <<>>, outcomes |-> <<>>,
             saw |-> "", call_no |-> 0, result |-> "none"]

MeasurementIdle ==
    /\ measurement = None
    /\ measurement_completed = FALSE
    /\ worker = [w \in Workers |-> [pc |-> "unstarted", way |-> ""]]
    /\ client = NoClient

\* the client's call returns value (or raises it)
ClientReturn(c, value) == [c EXCEPT !.pc = "idle", !.result = value]

\* the reader thread delivers a MEASURE_RADIO_STATUS_RESPONSE
measurement_received ==
    /\ inbound.uid < MaxMeasurementReceived
    /\ \E cmd \in MeasurementInbound :
          LET cmd_received == [command_id |-> cmd.command_id,
                               parameters |-> cmd.parameters,
                               uid |-> inbound.uid + 1]
              after == OnCommandReceived(
                           [received_commands |-> received_commands, notified |-> notified],
                           cmd_received, notification_handler)
          IN /\ inbound' = cmd_received
             /\ received_commands' = after.received_commands
             /\ notified' = after.notified
    /\ UNCHANGED <<notification_handler, pc, request, retry, result, call>>
    /\ UNCHANGED <<measurement, measurement_completed, worker, client>>
    /\ UNCHANGED notMeasurementVars

\* start_radio_measurement(destinations, source): the destinations, taken
\* from get_node_list(CONNECTED) when none are given
start_radio_measurement ==
    /\ client.pc = "idle"
    /\ client.call_no < MaxStarts
    /\ \E destinations \in DestinationInputs, source \in {"0001", "0010"},
          node_list \in NodeLists :
          LET c == [NoClient EXCEPT !.op = "start", !.source = source,
                                    !.call_no = client.call_no + 1] IN
          IF destinations = <<>>
          THEN IF node_list = <<>>
               THEN client' = ClientReturn(c, "None")
               ELSE client' = [c EXCEPT !.pc = "receive", !.i = 1,
                                  !.destinations = DefaultDestinations(node_list, source)]
          ELSE /\ node_list = <<>>
               /\ client' = [c EXCEPT !.pc = "receive", !.i = 1,
                                      !.destinations = destinations]
    /\ UNCHANGED <<measurement, measurement_completed, worker>>
    /\ UNCHANGED <<engineVars, notMeasurementVars>>

\* _get_timeout(target) and the entry of get_response for a measurement
\* request: get_route gave a route or None; on None, len(None) raises and the
\* request is never built; otherwise the old responses are purged and the
\* request is handed to send_command
MeasurementRequest(mode, target, route_found) ==
    IF ~route_found
    THEN /\ client' = ClientReturn(client, "TypeError")
         /\ UNCHANGED received_commands
    ELSE /\ received_commands' =
                RemoveOldResponses(received_commands, MEASURE_RADIO_STATUS_RESPONSE)
         /\ client' = [client EXCEPT !.pc = "wait", !.step = mode,
                                     !.retry = DefaultRetry,
                                     !.sent = Append(@, [mode |-> mode, target |-> target])]

\* "for destination in destinations:" START_RECEIVE to the next destination
start_receive ==
    /\ client.pc = "receive"
    /\ \E route_found \in BOOLEAN :
          MeasurementRequest("START_RECEIVE", client.destinations[client.i], route_found)
    /\ UNCHANGED <<measurement, measurement_completed, worker>>
    /\ UNCHANGED <<notification_handler, notified, inbound, pc, request, retry, result, call>>
    /\ UNCHANGED notMeasurementVars

\* START_SEND to the source
start_send ==
    /\ client.pc = "send"
    /\ \E route_found \in BOOLEAN :
          MeasurementRequest("START_SEND", client.source, route_found)
    /\ UNCHANGED <<measurement, measurement_completed, worker>>
    /\ UNCHANGED <<notification_handler, notified, inbound, pc, request, retry, result, call>>
    /\ UNCHANGED notMeasurementVars

\* what get_response can return for a measurement request
MeasurementResponses(list) ==
    LET found == ScanLoop(list, 1, [command_id |-> MEASURE_RADIO_STATUS_RESPONSE - 1,
                                    parameters |-> NoParameters],
                          MEASURE_RADIO_STATUS_RESPONSE)
    IN \* the module's reply arrives and the next poll takes it
       { [kind |-> "response", result |-> r, taken |-> 0] : r \in {0, 1} }
       \* or the poll takes a response that is in the buffer
       \cup (IF found.outcome = "return"
             THEN {[kind |-> "response",
                    result |-> list[found.index].parameters.result,
                    taken |-> found.index]}
             ELSE {})

\* the caller goes on with what _simple_response made of the response
MeasurementContinue(c, response) ==
    LET ok == SimpleResponse(response)
        done == [c EXCEPT !.outcomes =
                    Append(@, IF response.kind = "None" THEN "None"
                              ELSE IF response.result = 0 THEN "ok" ELSE "fail")]
    IN CASE c.step = "START_RECEIVE" ->
              IF ~ok THEN ClientReturn(done, "None")
              ELSE [done EXCEPT !.i = c.i + 1,
                                !.pc = IF c.i + 1 <= Len(c.destinations)
                                       THEN "receive" ELSE "send"]
         [] c.step = "START_SEND" ->
              IF ~ok THEN ClientReturn(done, "None")
              ELSE [done EXCEPT !.pc = "clear_event"]
         [] c.step = "ABORT" ->
              IF ~ok THEN ClientReturn(done, "False")
              ELSE [done EXCEPT !.pc = "abort_clear"]

\* a poll of get_response finds the response and removes it from the buffer
measurement_poll ==
    /\ client.pc = "wait"
    /\ \E response \in MeasurementResponses(received_commands) :
          /\ received_commands' =
                 IF response.taken = 0 THEN received_commands
                 ELSE RemoveFirst(received_commands, received_commands[response.taken])
          /\ client' = MeasurementContinue(client, response)
    /\ UNCHANGED <<measurement, measurement_completed, worker>>
    /\ UNCHANGED <<notification_handler, notified, inbound, pc, request, retry, result, call>>
    /\ UNCHANGED notMeasurementVars

\* the round times out: a new round purges and sends the same request
\* again, or get_response returns None
measurement_timed_out ==
    /\ client.pc = "wait"
    /\ IF RetryAgain(client.retry)
       THEN /\ received_commands' =
                   RemoveOldResponses(received_commands, MEASURE_RADIO_STATUS_RESPONSE)
            /\ client' = [client EXCEPT !.retry = @ - 1]
       ELSE /\ client' = MeasurementContinue(client, [kind |-> "None"])
            /\ UNCHANGED received_commands
    /\ UNCHANGED <<measurement, measurement_completed, worker>>
    /\ UNCHANGED <<notification_handler, notified, inbound, pc, request, retry, result, call>>
    /\ UNCHANGED notMeasurementVars

\* "self._measurement_completed.clear()"
start_clear_event ==
    /\ client.pc = "clear_event"
    /\ measurement_completed' = FALSE
    /\ client' = [client EXCEPT !.pc = "create"]
    /\ UNCHANGED <<measurement, worker>>
    /\ UNCHANGED <<engineVars, notMeasurementVars>>

\* "self._measurement = {...}": the session and its thread object
start_create ==
    /\ client.pc = "create"
    /\ measurement' = [kind |-> "session", id |-> client.call_no,
                       source |-> client.source,
                       destinations |-> client.destinations,
                       end |-> FALSE, count_sent |-> 0]
    /\ client' = [client EXCEPT !.pc = "start_worker"]
    /\ UNCHANGED <<measurement_completed, worker>>
    /\ UNCHANGED <<engineVars, notMeasurementVars>>

\* "self._measurement["worker"].start()" and "return
\* self._measurement_completed"; the field is read again, and subscripting
\* None raises
start_worker ==
    /\ client.pc = "start_worker"
    /\ IF measurement = None
       THEN /\ client' = ClientReturn(client, "TypeError")
            /\ UNCHANGED worker
       ELSE /\ worker' = [worker EXCEPT ![measurement.id] = [pc |-> "poll", way |-> ""]]
            /\ client' = ClientReturn(client, "event")
    /\ UNCHANGED <<measurement, measurement_completed>>
    /\ UNCHANGED <<engineVars, notMeasurementVars>>

\* abort_radio_measurement: the checks under the measurement lock
abort_radio_measurement ==
    /\ client.pc = "idle"
    /\ LET c == [NoClient EXCEPT !.op = "abort", !.call_no = client.call_no] IN
       client' = IF measurement = None
                 THEN ClientReturn([c EXCEPT !.saw = "none"], "False")
                 ELSE IF measurement.end
                 THEN ClientReturn([c EXCEPT !.saw = "ended"], "True")
                 ELSE [c EXCEPT !.saw = "running", !.source = measurement.source,
                                !.pc = "abort_request"]
    /\ UNCHANGED <<measurement, measurement_completed, worker>>
    /\ UNCHANGED <<engineVars, notMeasurementVars>>

\* the ABORT request to the source
abort_request ==
    /\ client.pc = "abort_request"
    /\ \E route_found \in BOOLEAN :
          MeasurementRequest("ABORT", client.source, route_found)
    /\ UNCHANGED <<measurement, measurement_completed, worker>>
    /\ UNCHANGED <<notification_handler, notified, inbound, pc, request, retry, result, call>>
    /\ UNCHANGED notMeasurementVars

\* "with self._measurement_lock: self._measurement = None" and "return True"
abort_clear ==
    /\ client.pc = "abort_clear"
    /\ measurement' = None
    /\ client' = ClientReturn(client, "True")
    /\ UNCHANGED <<measurement_completed, worker>>
    /\ UNCHANGED <<engineVars, notMeasurementVars>>

\* get_result_radio_measurement: None without a session; otherwise it joins
\* the session's worker if that is alive
get_result_radio_measurement ==
    /\ client.pc = "idle"
    /\ LET c == [NoClient EXCEPT !.op = "get_result", !.call_no = client.call_no] IN
       client' = IF measurement = None
                 THEN ClientReturn(c, "None")
                 ELSE [c EXCEPT !.pc = "join", !.i = measurement.id,
                                !.destinations = measurement.destinations]
    /\ UNCHANGED <<measurement, measurement_completed, worker>>
    /\ UNCHANGED <<engineVars, notMeasurementVars>>

\* the join returns; then one RESULT request per destination, each through
\* get_response, which purges the buffer; "self._measurement["destinations"]"
\* raises if the session has been cleared
get_result_query ==
    /\ client.pc = "join"
    /\ ~Alive(client.i)
    /\ IF measurement = None
       THEN /\ client' = ClientReturn(client, "TypeError")
            /\ UNCHANGED received_commands
       ELSE /\ client' = ClientReturn(client, "results")
            /\ received_commands' =
                   RemoveOldResponses(received_commands, MEASURE_RADIO_STATUS_RESPONSE)
    /\ UNCHANGED <<measurement, measurement_completed, worker>>
    /\ UNCHANGED <<notification_handler, notified, inbound, pc, request, retry, result, call>>
    /\ UNCHANGED notMeasurementVars

\* one pass of the worker's loop before its timer fires, under the
\* measurement lock
worker_poll(w) ==
    /\ worker[w].pc = "poll"
    /\ IF measurement = None
       THEN /\ worker' = [worker EXCEPT ![w] = [pc |-> "set", way |-> "aborted"]]
            /\ UNCHANGED measurement
       ELSE LET hit == FirstResult(received_commands) IN
            IF hit # 0
            THEN /\ measurement' =
                        [measurement EXCEPT !.end = TRUE,
                            !.count_sent = received_commands[hit].parameters.count]
                 /\ worker' = [worker EXCEPT ![w] = [pc |-> "set", way |-> "result"]]
            ELSE /\ UNCHANGED measurement
                 /\ worker' = IF measurement.end
                              THEN [worker EXCEPT ![w] = [pc |-> "set", way |-> "ended"]]
                              ELSE worker
    /\ UNCHANGED <<measurement_completed, client>>
    /\ UNCHANGED <<engineVars, notMeasurementVars>>

\* the worker's timer has fired: event_timeout.wait(0.1) returns True
worker_timeout(w) ==
    /\ worker[w].pc = "poll"
    /\ worker' = [worker EXCEPT ![w] = [pc |-> "clear", way |-> "timeout"]]
    /\ UNCHANGED <<measurement, measurement_completed, client>>
    /\ UNCHANGED <<engineVars, notMeasurementVars>>

\* the else branch of the loop: "self._measurement = None" under the lock
worker_clear(w) ==
    /\ worker[w].pc = "clear"
    /\ measurement' = None
    /\ worker' = [worker EXCEPT ![w].pc = "set"]
    /\ UNCHANGED <<measurement_completed, client>>
    /\ UNCHANGED <<engineVars, notMeasurementVars>>

\* "self._measurement_completed.set()" and the thread ends
worker_set(w) ==
    /\ worker[w].pc = "set"
    /\ measurement_completed' = TRUE
    /\ worker' = [worker EXCEPT ![w].pc = "done"]
    /\ UNCHANGED <<measurement, client>>
    /\ UNCHANGED <<engineVars, notMeasurementVars>>

(***************************************************************************)
(* Paged lists (SR920.get_node_list, SR920.get_link_list).                 *)
(***************************************************************************)
\* an extend that puts the follow-up pages in front
ExtendInFront(node_list, more) == more \o node_list

\* "node_list.extend(...)" / "link_list.extend(...)"
Extend(node_list, more) == node_list \o more

\* the lists one page can carry; the items stand for node or link entries
PageLists == {<<>>, <<1>>, <<2>>, <<2, 1>>}

\* what get_response can return for the page seq_no: a response with a
\* result and the page's list (more data only while the model has pages
\* left)
ListResponses(n) ==
    { [kind |-> "response", result |-> r, list |-> l] :
          r \in (IF n < MaxPages THEN {0, 1, 2} ELSE {0, 2}), l \in PageLists }

\* the calls that wait for their follow-up page return, innermost first:
\* each one extends its page with what the call it made returned, and
\* extending with None raises
RECURSIVE ReturnThrough(_, _)
ReturnThrough(frames, returned) ==
    IF frames = <<>> THEN returned
    ELSE IF returned.kind = "TypeError" THEN returned
    ELSE IF returned.kind = "None" THEN [kind |-> "TypeError"]
    ELSE ReturnThrough(SubSeq(frames, 1, Len(frames) - 1),
                       [kind |-> "list",
                        list |-> Extend(frames[Len(frames)], returned.list)])

ListIdle ==
    /\ list_pc = "idle"
    /\ list_kind = "none"
    /\ list_seq_no = 0
    /\ list_frames = <<>>
    /\ list_retry = 0
    /\ list_result = None
    /\ list_requests = <<>>
    /\ list_pages = <<>>

\* get_node_list(list_type) or get_link_list() is called with the default
\* seq_no = 1
get_list ==
    /\ list_pc = "idle"
    /\ \E kind \in {"node", "link"} : list_kind' = kind
    /\ list_seq_no' = 1
    /\ list_pc' = "request"
    /\ UNCHANGED <<list_frames, list_retry, list_result, list_requests, list_pages>>
    /\ UNCHANGED notListVars

\* the request {"seq_no": seq_no} is built and get_response called
list_get_response ==
    /\ list_pc = "request"
    /\ list_requests' = Append(list_requests, list_seq_no)
    /\ list_retry' = DefaultRetry
    /\ list_pc' = "wait"
    /\ UNCHANGED <<list_kind, list_seq_no, list_frames, list_result, list_pages>>
    /\ UNCHANGED notListVars

\* the call goes on with what get_response returned
ListContinue(response) ==
    IF response.kind = "response" /\ response.result \in {0, 1}
    THEN IF response.result = 1
         THEN \* the call for the next page, made from inside extend(...)
              /\ list_frames' = Append(list_frames, response.list)
              /\ list_seq_no' = list_seq_no + 1
              /\ list_pc' = "request"
              /\ UNCHANGED list_result
         ELSE /\ list_result' =
                     ReturnThrough(list_frames, [kind |-> "list", list |-> response.list])
              /\ list_pc' = "returned"
              /\ UNCHANGED <<list_frames, list_seq_no>>
    ELSE /\ list_result' = ReturnThrough(list_frames, None)
         /\ list_pc' = "returned"
         /\ UNCHANGED <<list_frames, list_seq_no>>

\* get_response returns the response that carries the request's seq_no
list_response ==
    /\ list_pc = "wait"
    /\ \E response \in ListResponses(list_seq_no) :
          /\ ListContinue(response)
          /\ list_pages' = Append(list_pages, [result |-> response.result,
                                               list |-> response.list])
    /\ UNCHANGED <<list_kind, list_retry, list_requests>>
    /\ UNCHANGED notListVars

\* a round of get_response times out: the request is sent again, or None is
\* returned
list_timed_out ==
    /\ list_pc = "wait"
    /\ IF RetryAgain(list_retry)
       THEN /\ list_retry' = list_retry - 1
            /\ UNCHANGED <<list_pc, list_seq_no, list_frames, list_result, list_pages>>
       ELSE /\ ListContinue(None)
            /\ list_pages' = Append(list_pages, [result |-> -1, list |-> <<>>])
            /\ UNCHANGED list_retry
    /\ UNCHANGED <<list_kind, list_requests>>
    /\ UNCHANGED notListVars

ListNext ==
    \/ get_list
    \/ list_get_response
    \/ list_response
    \/ list_timed_out

(***************************************************************************)
(* The codec (smarthop/sr920/command.py).                                  *)
(* Python values carry their type: [int |-> n], [bool |-> b], [str |-> s]  *)
(* with s the sequence of the string's code points, [bytes |-> s],         *)
(* [list |-> s], [dict |-> f] with f a function from names to values, and  *)
(* [enum |-> class, name |-> n, value |-> v] for a member of an enum.      *)
(* A call either returns, [data |-> ...], or raises, [raised |-> class].   *)
(* The section above has to_bytes for the templates of int fields alone;   *)
(* this one has every field type, and parse.                               *)
(***************************************************************************)
Raise(exception) == [raised |-> exception]

Raised(outcome) == "raised" \in DOMAIN outcome

\* the members of the enums the templates of the model name.  enums.py has
\* no SR920FirmwareUpdateCommandId: its members are the ones the byte
\* vectors of the command tests show
enums ==
    [SR920ConfigId |-> [TX_POWER |-> 2, MAC_ADDRESS |-> 18, LED |-> 48, DUMMY_SIZE |-> 49,
                        ENABLE_ENCRYPTION |-> 166, NETWORK_ADDRESS |-> 178],
     SR920TxPower |-> [TX_1mW |-> 1, TX_20mW |-> 2],
     SR920FirmwareUpdateCommandId |-> [START |-> 2, WRITE |-> 3, CHECK |-> 4, RESET |-> 5,
                                       GET_VERSION |-> 6]]

\* a member of an enum
Member(class, name) == [enum |-> class, name |-> name, value |-> enums[class][name]]

\* the members of SR920CommandId that have a template in the model
CommandIdNames ==
    [READ_CONFIG_REQUEST |-> 1920, READ_CONFIG_RESPONSE |-> 1921,
     RESET_REQUEST |-> 2032, RESET_RESPONSE |-> 2033,
     GET_VERSION_RESPONSE |-> GET_VERSION_RESPONSE,
     GET_LINK_LIST_REQUEST |-> GET_LINK_LIST_REQUEST,
     GET_LINK_LIST_RESPONSE |-> GET_LINK_LIST_RESPONSE,
     GET_ROUTE_RESPONSE |-> 821,
     UPDATE_FIRMWARE_REQUEST |-> 1858, UPDATE_FIRMWARE_RESPONSE |-> 1859]

\* command_id.name, as far as a template can match it
CommandIdName(command_id) ==
    IF \E name \in DOMAIN CommandIdNames : CommandIdNames[name] = command_id
    THEN CHOOSE name \in DOMAIN CommandIdNames : CommandIdNames[name] = command_id
    ELSE "(a member without a template)"

\* _templates, the parsed commands.json.  A type "enum:X", "select:X" or
\* "ref:X" is held as the type "enum:", "select:" or "ref:" and the field of
\* |-> "X" (the model has no substrings), and the keys "true-value" and
\* "false-value" as true_value and false_value; "6A" is <<54, 65>>.  The
\* file is not part of the sources: the templates are the ones the byte
\* vectors of the command tests are encoded with, for ten of the commands.
Templates ==
    [commands |-> <<
        [name |-> "READ_CONFIG_REQUEST", parameters |-> <<
            [name |-> "config_id", type |-> "enum:", of |-> "SR920ConfigId", length |-> 1] >>],
        [name |-> "READ_CONFIG_RESPONSE", parameters |-> <<
            [name |-> "result", type |-> "int", length |-> 1],
            [name |-> "config_id", type |-> "enum:", of |-> "SR920ConfigId", length |-> 1],
            [type |-> "select:", of |-> "config_id", cases |-> <<
                [case |-> {"TX_POWER"}, parameters |-> <<
                    [name |-> "value", type |-> "enum:", of |-> "SR920TxPower", length |-> 1] >>],
                [case |-> {"MAC_ADDRESS"}, parameters |-> <<
                    [name |-> "value", type |-> "hex", length |-> 8, byteorder |-> "little"] >>],
                [case |-> {"LED"}, parameters |-> <<
                    [name |-> "value", type |-> "bool", length |-> 1] >>],
                [case |-> {"DUMMY_SIZE"}, parameters |-> <<
                    [name |-> "value", type |-> "int", length |-> 1] >>],
                [case |-> {"ENABLE_ENCRYPTION"}, parameters |-> <<
                    [name |-> "value", type |-> "bool", length |-> 1,
                     true_value |-> <<54, 65>>, false_value |-> <<57, 53>>] >>],
                [case |-> {"NETWORK_ADDRESS"}, parameters |-> <<
                    [name |-> "value", type |-> "object", properties |-> <<
                        [name |-> "short_address", type |-> "hex", length |-> 2,
                         byteorder |-> "little"],
                        [name |-> "pan_id", type |-> "hex", length |-> 2,
                         byteorder |-> "little"] >>] >>] >>] >>],
        [name |-> "RESET_REQUEST", parameters |-> <<
            [type |-> "int", length |-> 2, value |-> 256] >>],
        [name |-> "RESET_RESPONSE", parameters |-> <<
            [name |-> "result", type |-> "int", length |-> 1],
            [name |-> "reset_parameter", type |-> "bytes"] >>],
        [name |-> "GET_VERSION_RESPONSE", parameters |-> <<
            [name |-> "result", type |-> "int", length |-> 1],
            [name |-> "version", type |-> "str"] >>],
        [name |-> "GET_LINK_LIST_REQUEST", parameters |-> <<
            [name |-> "seq_no", type |-> "int", length |-> 2, byteorder |-> "little"] >>],
        [name |-> "GET_LINK_LIST_RESPONSE", parameters |-> <<
            [name |-> "result", type |-> "int", length |-> 1],
            [name |-> "seq_no", type |-> "int", length |-> 2, byteorder |-> "little"],
            [name |-> "link_list", type |-> "array", items |->
                [name |-> "link", type |-> "object", properties |-> <<
                    [type |-> "ref:", of |-> "link"] >>]] >>],
        [name |-> "GET_ROUTE_RESPONSE", parameters |-> <<
            [name |-> "result", type |-> "int", length |-> 1],
            [name |-> "route_info", type |-> "array", items |->
                [name |-> "short_address", type |-> "hex", length |-> 2,
                 byteorder |-> "little"]] >>],
        [name |-> "UPDATE_FIRMWARE_REQUEST", parameters |-> <<
            [type |-> "int", length |-> 1, value |-> 1],
            [name |-> "sub_command_id", type |-> "enum:", of |-> "SR920FirmwareUpdateCommandId",
             length |-> 1],
            [name |-> "seq_no", type |-> "int", length |-> 2],
            [type |-> "select:", of |-> "sub_command_id", cases |-> <<
                [case |-> {"GET_VERSION"}, parameters |-> <<
                    [type |-> "int", length |-> 2, value |-> 0] >>],
                [case |-> {"RESET"}, parameters |-> <<
                    [type |-> "int", length |-> 2, value |-> 2],
                    [name |-> "wait", type |-> "int", length |-> 2] >>] >>] >>],
        [name |-> "UPDATE_FIRMWARE_RESPONSE", parameters |-> <<
            [name |-> "result", type |-> "int", length |-> 1],
            [type |-> "int", length |-> 1, value |-> 2],
            [name |-> "sub_command_id", type |-> "enum:", of |-> "SR920FirmwareUpdateCommandId",
             length |-> 1],
            [name |-> "seq_no", type |-> "int", length |-> 2],
            [name |-> "length", type |-> "int", length |-> 2],
            [name |-> "status", type |-> "int", length |-> 1, signed |-> TRUE],
            [type |-> "select:", of |-> "sub_command_id", cases |-> <<
                [case |-> {"GET_VERSION"}, parameters |-> <<
                    [name |-> "version", type |-> "str", byteorder |-> "little"] >>] >>] >>] >>,
     definitions |->
        [link |-> <<
            [name |-> "child", type |-> "hex", length |-> 2, byteorder |-> "little"],
            [name |-> "parent", type |-> "hex", length |-> 2, byteorder |-> "little"] >>]]

\* data[::-1]
Reversed(octets) == [i \in 1..Len(octets) |-> octets[Len(octets) + 1 - i]]

\* the value of a hexadecimal digit given by its code point, -1 for any
\* other character
HexDigit(c) ==
    IF c \in 48..57 THEN c - 48
    ELSE IF c \in 97..102 THEN c - 87
    ELSE IF c \in 65..70 THEN c - 55
    ELSE -1

\* int(text, 16).to_bytes(length, byteorder), digit by digit: the digits
\* after the leading zeros have to fit into 2 * length places
HexToBytes(text, length, byteorder) ==
    IF text = <<>> \/ \E i \in 1..Len(text) : HexDigit(text[i]) = -1
    THEN Raise("ValueError")
    ELSE LET zeros == CHOOSE k \in 0..Len(text) :
                          /\ \A i \in 1..k : text[i] = 48
                          /\ k < Len(text) => text[k + 1] # 48
             digits == Len(text) - zeros
             place(j) == \* the digit at place j of 2 * length, from the left
                 IF j <= 2 * length - digits THEN 0
                 ELSE HexDigit(text[Len(text) - (2 * length - j)])
             big == [i \in 1..length |-> 16 * place(2 * i - 1) + place(2 * i)]
         IN IF digits > 2 * length THEN Raise("OverflowError")
            ELSE [data |-> IF byteorder = "little" THEN Reversed(big) ELSE big]

\* a hex() that writes the digits a to f in upper case
BytesHexUpperCase(octets) ==
    LET digit(n) == IF n < 10 THEN 48 + n ELSE 55 + n
    IN [j \in 1..(2 * Len(octets)) |->
           IF j % 2 = 1 THEN digit(octets[(j + 1) \div 2] \div 16)
           ELSE digit(octets[j \div 2] % 16)]

\* bytes.hex(): two lower-case digits for each byte
BytesHex(octets) ==
    LET digit(n) == IF n < 10 THEN 48 + n ELSE 87 + n
    IN [j \in 1..(2 * Len(octets)) |->
           IF j % 2 = 1 THEN digit(octets[(j + 1) \div 2] \div 16)
           ELSE digit(octets[j \div 2] % 16)]

\* value.to_bytes(length, byteorder, signed=signed); only int and bool have
\* the method
IntDotToBytes(value, length, byteorder, signed) ==
    IF "int" \notin DOMAIN value /\ "bool" \notin DOMAIN value
    THEN Raise("AttributeError")
    ELSE LET n == IF "int" \in DOMAIN value THEN value.int
                  ELSE IF value.bool THEN 1 ELSE 0
             modulus == 256 ^ length
             lowest == IF signed THEN 0 - (modulus \div 2) ELSE 0
             highest == IF signed THEN (modulus \div 2) - 1 ELSE modulus - 1
         IN IF n < lowest \/ n > highest THEN Raise("OverflowError")
            ELSE [data |-> IntToBytes((n + modulus) % modulus, length, byteorder)]

\* int.from_bytes(data, "big", signed=signed)
RECURSIVE IntFromBigEndian(_, _)
IntFromBigEndian(octets, signed) ==
    IF octets = <<>> THEN 0
    ELSE IF signed /\ octets[1] >= 128
         THEN IntFromBigEndian(octets, FALSE) - 256 ^ Len(octets)
         ELSE IntFromBigEndian(SubSeq(octets, 1, Len(octets) - 1), FALSE) * 256 + octets[Len(octets)]

\* "if param_value:"
Truthy(value) ==
    IF "bool" \in DOMAIN value THEN value.bool
    ELSE IF "int" \in DOMAIN value THEN value.int # 0
    ELSE IF "str" \in DOMAIN value THEN value.str # <<>>
    ELSE IF "bytes" \in DOMAIN value THEN value.bytes # <<>>
    ELSE IF "list" \in DOMAIN value THEN value.list # <<>>
    ELSE IF "dict" \in DOMAIN value THEN DOMAIN value.dict # {}
    ELSE TRUE

\* a select loop in which a default entry ends the search
RECURSIVE SelectLoopDefaultEnds(_, _, _)
SelectLoopDefaultEnds(param_case, cases, default_case) ==
    IF cases = <<>> THEN default_case
    ELSE LET temp_case == Head(cases) IN
         IF "default" \in DOMAIN temp_case THEN temp_case.default
         ELSE IF "enum" \in DOMAIN param_case /\ param_case.name \in temp_case.case
         THEN temp_case.parameters
         ELSE SelectLoopDefaultEnds(param_case, Tail(cases), default_case)

\* "for temp_case in template['cases']" with "if default_case:" after it:
\* the parameters that get applied.  The name of an enum member is looked up
\* in the case lists; the other select variables of the model are ints,
\* which equal no name.  No default seen, like an empty default, applies
\* nothing.
RECURSIVE SelectLoop(_, _, _)
SelectLoop(param_case, cases, default_case) ==
    IF cases = <<>> THEN default_case
    ELSE LET temp_case == Head(cases) IN
         IF "default" \in DOMAIN temp_case
         THEN SelectLoop(param_case, Tail(cases), temp_case.default)
         ELSE IF "enum" \in DOMAIN param_case /\ param_case.name \in temp_case.case
         THEN temp_case.parameters
         ELSE SelectLoop(param_case, Tail(cases), default_case)

\* a lookup that takes 0 for a parameter that is not there
LookupOrZero(parameters, name) ==
    IF name \notin DOMAIN parameters THEN [value |-> [int |-> 0]]
    ELSE [value |-> parameters[name]]

\* "if template['name'] not in parameters: raise AttributeError(...)", then
\* parameters[template['name']]
Lookup(parameters, name) ==
    IF name \notin DOMAIN parameters THEN Raise("AttributeError")
    ELSE [value |-> parameters[name]]

RECURSIVE PackParameters(_, _)
RECURSIVE PackItems(_, _)
RECURSIVE PackField(_, _)

\* SR920Command._pack_parameters(parameters, templates); parameters is the
\* content of the dict
PackParameters(parameters, templates) ==
    IF templates = <<>> THEN [data |-> <<>>]
    ELSE LET template == Head(templates)
             packed ==
                 IF template.type = "select:"
                 THEN IF template.of \notin DOMAIN parameters
                      THEN Raise("AttributeError")
                      ELSE PackParameters(parameters,
                               SelectLoop(parameters[template.of], template.cases, <<>>))
                 ELSE IF template.type = "ref:"
                 THEN IF template.of \notin DOMAIN Templates.definitions
                      THEN Raise("AttributeError")
                      ELSE PackParameters(parameters, Templates.definitions[template.of])
                 ELSE PackField(parameters, template)
         IN IF Raised(packed) THEN packed
            ELSE LET others == PackParameters(parameters, Tail(templates)) IN
                 IF Raised(others) THEN others
                 ELSE [data |-> packed.data \o others.data]

\* the array branch: one _pack_parameters call for each item
PackItems(items, template) ==
    IF items = <<>> THEN [data |-> <<>>]
    ELSE LET packed == PackParameters(template.name :> Head(items), <<template>>) IN
         IF Raised(packed) THEN packed
         ELSE LET others == PackItems(Tail(items), template) IN
              IF Raised(others) THEN others
              ELSE [data |-> packed.data \o others.data]

\* one template that is neither a select nor a ref.  A constant of the
\* templates is a JSON number.
PackField(parameters, template) ==
    IF "value" \notin DOMAIN template /\ Raised(Lookup(parameters, template.name))
    THEN Lookup(parameters, template.name)
    ELSE
    LET param_value == IF "value" \in DOMAIN template THEN [int |-> template.value]
                       ELSE Lookup(parameters, template.name).value
        temp_len == IF "length" \in DOMAIN template THEN template.length ELSE 1
        temp_endian == IF "byteorder" \in DOMAIN template THEN template.byteorder ELSE "big"
        temp_type == template.type
    IN IF temp_type = "bool"
       THEN IF Truthy(param_value) /\ "true_value" \in DOMAIN template
            THEN HexToBytes(template.true_value, temp_len, temp_endian)
            ELSE IF ~Truthy(param_value) /\ "false_value" \in DOMAIN template
            THEN HexToBytes(template.false_value, temp_len, temp_endian)
            ELSE IntDotToBytes(param_value, temp_len, temp_endian, FALSE)
       ELSE IF temp_type = "int"
       THEN IntDotToBytes(param_value, temp_len, temp_endian,
                          IF "signed" \in DOMAIN template THEN template.signed ELSE FALSE)
       ELSE IF temp_type = "str"
       THEN IF "str" \notin DOMAIN param_value THEN Raise("AttributeError")
            ELSE IF \E i \in 1..Len(param_value.str) : param_value.str[i] >= 128
            THEN Raise("UnicodeEncodeError")
            ELSE [data |-> IF temp_endian = "little" THEN Reversed(param_value.str)
                           ELSE param_value.str]
       ELSE IF temp_type = "hex"
       THEN IF "str" \notin DOMAIN param_value THEN Raise("TypeError")
            ELSE HexToBytes(param_value.str, temp_len, temp_endian)
       ELSE IF temp_type = "object"
       THEN IF "dict" \notin DOMAIN param_value THEN Raise("TypeError")
            ELSE PackParameters(param_value.dict, template.properties)
       ELSE IF temp_type = "array"
       THEN IF "list" \notin DOMAIN param_value THEN Raise("TypeError")
            ELSE PackItems(param_value.list, template.items)
       ELSE IF temp_type = "enum:"
       THEN IF "enum" \notin DOMAIN param_value THEN Raise("AttributeError")
            ELSE IntDotToBytes([int |-> param_value.value], temp_len, temp_endian, FALSE)
       ELSE IF "bytes" \notin DOMAIN param_value THEN Raise("TypeError")
            ELSE [data |-> param_value.bytes]

\* SR920Command._get_template: the template whose name is the id's name, or
\* None
GetTemplate(command_id) ==
    LET found == { i \in 1..Len(Templates.commands) :
                       Templates.commands[i].name = CommandIdName(command_id) }
    IN IF found = {} THEN None
       ELSE Templates.commands[CHOOSE i \in found : \A j \in found : i <= j]

\* SR920Command.to_bytes
ToBytes(command) ==
    LET template == GetTemplate(command.command_id)
        id == IntToBytes(command.command_id, 2, "big")
    IN IF template # None /\ "parameters" \in DOMAIN template
       THEN LET packed == PackParameters(command.parameters, template.parameters) IN
            IF Raised(packed) THEN packed ELSE [data |-> id \o packed.data]
       ELSE [data |-> id]

\* data[:n] and data[n:]
Take(octets, n) == SubSeq(octets, 1, IF n < Len(octets) THEN n ELSE Len(octets))

Drop(octets, n) == SubSeq(octets, (IF n < Len(octets) THEN n ELSE Len(octets)) + 1, Len(octets))

\* "if not param_bytes" / "while param_bytes": None and b"" are false
NoBytes(param_bytes) == param_bytes = None \/ param_bytes.bytes = <<>>

\* params.values(): the items of the model decode to one value each
Values(params) ==
    IF DOMAIN params = {} THEN <<>> ELSE <<params[CHOOSE name \in DOMAIN params : TRUE]>>

RECURSIVE UnpackParameters(_, _, _)
RECURSIVE UnpackItems(_, _, _)
RECURSIVE UnpackField(_, _, _, _)

\* SR920Command._unpack_parameters(parameters, data, templates): data is
\* [bytes |-> ...] or None; the call returns the pair (parameters, data)
UnpackParameters(parameters, octets, templates) ==
    IF templates = <<>> THEN [parameters |-> parameters, data |-> octets]
    ELSE
    LET template == Head(templates)
        nested(selected) == \* a select or ref: the same dict, the same cursor
            LET unpacked == UnpackParameters(parameters, octets, selected) IN
            IF Raised(unpacked) THEN unpacked
            ELSE UnpackParameters(unpacked.parameters, unpacked.data, Tail(templates))
    IN IF template.type = "select:"
       THEN IF template.of \notin DOMAIN parameters THEN Raise("AttributeError")
            ELSE nested(SelectLoop(parameters[template.of], template.cases, <<>>))
       ELSE IF template.type = "ref:"
       THEN IF template.of \notin DOMAIN Templates.definitions THEN Raise("AttributeError")
            ELSE nested(Templates.definitions[template.of])
       ELSE IF "length" \in DOMAIN template /\ octets = None
       THEN Raise("TypeError")   \* None[:length]
       ELSE
       LET param_bytes ==
               IF "length" \in DOMAIN template
               THEN [bytes |-> Take(octets.bytes, template.length)]
               ELSE octets
           rest ==
               IF "length" \in DOMAIN template
               THEN [bytes |-> Drop(octets.bytes, template.length)]
               ELSE None
       IN IF NoBytes(param_bytes) /\ template.type \notin {"array", "object"}
          THEN [parameters |-> parameters, data |-> rest]   \* break
          ELSE IF "value" \in DOMAIN template
          THEN UnpackParameters(parameters, rest, Tail(templates))
          ELSE LET unpacked == UnpackField(parameters, param_bytes, rest, template) IN
               IF Raised(unpacked) THEN unpacked
               ELSE UnpackParameters(unpacked.parameters, unpacked.data, Tail(templates))

\* "while param_bytes:" of the array branch
UnpackItems(list, param_bytes, template) ==
    IF NoBytes(param_bytes) THEN [list |-> list]
    ELSE LET unpacked == UnpackParameters(<<>>, param_bytes, <<template>>) IN
         IF Raised(unpacked) THEN unpacked
         ELSE UnpackItems(list \o Values(unpacked.parameters), unpacked.data, template)

\* the assignment of one named field from its bytes; data is the cursor
\* after the field
UnpackField(parameters, bytes_of_field, octets, template) ==
    LET temp_name == template.name
        temp_endian == IF "byteorder" \in DOMAIN template THEN template.byteorder ELSE "big"
        temp_type == template.type
        assign(value) == [parameters |-> (temp_name :> value) @@ parameters, data |-> octets]
    IN IF temp_endian = "little" /\ bytes_of_field = None
       THEN Raise("TypeError")   \* None[::-1]
       ELSE
       LET param_bytes == IF temp_endian = "little"
                          THEN [bytes |-> Reversed(bytes_of_field.bytes)]
                          ELSE bytes_of_field
       IN IF temp_type = "bool"
          THEN LET matched ==
                       IF "true_value" \in DOMAIN template
                              /\ BytesHex(param_bytes.bytes) = template.true_value
                       THEN <<1>>
                       ELSE IF "false_value" \in DOMAIN template
                              /\ BytesHex(param_bytes.bytes) = template.false_value
                       THEN <<0>>
                       ELSE param_bytes.bytes
               IN assign([bool |-> IntFromBigEndian(matched, FALSE) # 0])
          ELSE IF temp_type = "int"
          THEN assign([int |-> IntFromBigEndian(param_bytes.bytes,
                          IF "signed" \in DOMAIN template THEN template.signed ELSE FALSE)])
          ELSE IF temp_type = "str"
          THEN IF \E i \in 1..Len(param_bytes.bytes) : param_bytes.bytes[i] >= 128
               THEN Raise("UnicodeDecodeError")
               ELSE assign([str |-> param_bytes.bytes])
          ELSE IF temp_type = "hex"
          THEN assign([str |-> BytesHex(param_bytes.bytes)])
          ELSE IF temp_type = "object"
          THEN LET unpacked == UnpackParameters(<<>>, param_bytes, template.properties) IN
               IF Raised(unpacked) THEN unpacked
               ELSE \* "(parameters[temp_name], data) = ...": the cursor becomes
                    \* what the properties left
                    [parameters |-> (temp_name :> [dict |-> unpacked.parameters]) @@ parameters,
                     data |-> unpacked.data]
          ELSE IF temp_type = "array"
          THEN LET unpacked == UnpackItems(<<>>, param_bytes, template.items) IN
               IF Raised(unpacked) THEN unpacked
               ELSE assign([list |-> unpacked.list])
          ELSE IF temp_type = "enum:"
          THEN IF template.of \notin DOMAIN enums THEN Raise("AttributeError")
               ELSE LET code == IntFromBigEndian(param_bytes.bytes, FALSE)
                        names == { name \in DOMAIN enums[template.of] :
                                       enums[template.of][name] = code }
                    IN IF names = {} THEN Raise("ValueError")
                       ELSE assign(Member(template.of, CHOOSE name \in names : TRUE))
          ELSE assign(param_bytes)

\* SR920Command.parse: the command, or the exception raised
Parse(octets) ==
    LET command_id == IntFromBigEndian(Take(octets, 2), FALSE)
        body == IF Len(octets) > 2 THEN [bytes |-> Drop(octets, 2)] ELSE None
        template == GetTemplate(command_id)
    IN IF command_id \notin SR920CommandId THEN Raise("ValueError")
       ELSE IF template # None /\ "parameters" \in DOMAIN template
       THEN LET unpacked == UnpackParameters(<<>>, body, template.parameters) IN
            IF Raised(unpacked) THEN unpacked
            ELSE [command_id |-> command_id, parameters |-> unpacked.parameters]
       ELSE [command_id |-> command_id, parameters |-> <<>>]

(***************************************************************************)
(* The inputs of the codec calls.                                          *)
(***************************************************************************)
\* "0001", "abcd", "ABCD" and "1": a short address as the driver prints it,
\* and as a caller may write it
ShortAddresses == {<<48, 48, 48, 49>>, <<97, 98, 99, 100>>, <<65, 66, 67, 68>>, <<49>>}

\* "0000000000000123" and "00000000000000AB"
MacAddresses ==
    {<<48, 48, 48, 48, 48, 48, 48, 48, 48, 48, 48, 48, 48, 49, 50, 51>>,
     <<48, 48, 48, 48, 48, 48, 48, 48, 48, 48, 48, 48, 48, 48, 65, 66>>}

\* all lists over S of length 0..n
Lists(S, n) == {<<>>} \cup SeqsUpTo(S, n)

\* the parameters of a READ_CONFIG_RESPONSE for each configuration
ConfigValues(name) ==
    IF name = "TX_POWER"
    THEN {Member("SR920TxPower", "TX_1mW"), Member("SR920TxPower", "TX_20mW")}
    ELSE IF name = "MAC_ADDRESS" THEN {[str |-> s] : s \in MacAddresses}
    ELSE IF name = "DUMMY_SIZE" THEN {[int |-> 0], [int |-> 8], [int |-> 255], [int |-> 256]}
    ELSE IF name = "NETWORK_ADDRESS"
    THEN {[dict |-> [short_address |-> [str |-> a], pan_id |-> [str |-> <<48, 49, 50, 51>>]]] :
              a \in ShortAddresses}
    ELSE {[bool |-> TRUE], [bool |-> FALSE]}

\* commands whose parameters name every field of the template, each with a
\* value of the field's type
CompleteCommands ==
    { [command_id |-> 1920, parameters |-> [config_id |-> Member("SR920ConfigId", name)]] :
          name \in DOMAIN enums.SR920ConfigId }
    \cup { [command_id |-> 1921,
            parameters |-> [result |-> [int |-> 0],
                            config_id |-> Member("SR920ConfigId", c[1]), value |-> c[2]]] :
               c \in UNION { {<<name, v>> : v \in ConfigValues(name)} :
                                 name \in DOMAIN enums.SR920ConfigId } }
    \cup { [command_id |-> 2032, parameters |-> <<>>] }
    \cup { [command_id |-> 2033,
            parameters |-> [result |-> [int |-> r], reset_parameter |-> [bytes |-> b]]] :
               r \in {0, 1}, b \in {<<>>, <<255>>, <<255, 255, 255>>} }
    \cup { [command_id |-> GET_VERSION_RESPONSE,
            parameters |-> [result |-> [int |-> 0], version |-> [str |-> v]]] :
               v \in {<<>>, <<83, 82>>, <<83, 233>>} }
    \cup { [command_id |-> GET_LINK_LIST_REQUEST, parameters |-> [seq_no |-> [int |-> n]]] :
               n \in {1, 256, 65535, 65536} }
    \cup { [command_id |-> GET_LINK_LIST_RESPONSE,
            parameters |-> [result |-> [int |-> 0], seq_no |-> [int |-> 1],
                            link_list |-> [list |-> l]]] :
               l \in Lists({[dict |-> [child |-> [str |-> <<48, 48, 49, 48>>],
                                       parent |-> [str |-> <<48, 48, 48, 49>>]]],
                            [dict |-> [child |-> [str |-> <<48, 48, 49, 49>>],
                                       parent |-> [str |-> <<48, 48, 49, 48>>]]]}, MaxItems) }
    \cup { [command_id |-> 821,
            parameters |-> [result |-> [int |-> 0], route_info |-> [list |-> l]]] :
               l \in Lists({[str |-> <<48, 48, 49, 49>>], [str |-> <<48, 48, 48, 49>>]},
                           MaxItems) }
    \cup { [command_id |-> 1858,
            parameters |-> IF s = "RESET"
                           THEN [sub_command_id |-> Member("SR920FirmwareUpdateCommandId", s),
                                 seq_no |-> [int |-> 1], wait |-> [int |-> 1]]
                           ELSE [sub_command_id |-> Member("SR920FirmwareUpdateCommandId", s),
                                 seq_no |-> [int |-> 1]]] :
               s \in {"GET_VERSION", "RESET", "START"} }
    \cup { [command_id |-> 1859,
            parameters |-> [result |-> [int |-> 0],
                            sub_command_id |-> Member("SR920FirmwareUpdateCommandId", s),
                            seq_no |-> [int |-> 1], length |-> [int |-> 3],
                            status |-> [int |-> st]]
                           @@ (IF s = "GET_VERSION" THEN [version |-> [str |-> <<83, 82>>]]
                               ELSE <<>>)] :
               s \in {"GET_VERSION", "RESET"}, st \in {0, -1} }

\* a dict without one of its keys
Without(parameters, name) == [n \in DOMAIN parameters \ {name} |-> parameters[n]]

\* the complete commands, the same with one parameter left out, and the same
\* with a string or a number where the template has an enum
CodecCommands ==
    CompleteCommands
    \cup { [command_id |-> c.command_id, parameters |-> Without(c.parameters, name)] :
               c \in CompleteCommands, name \in {"config_id", "value", "result", "seq_no",
                                                 "sub_command_id", "reset_parameter"} }
    \cup { [command_id |-> 1920, parameters |-> [config_id |-> v]] :
               v \in {[str |-> <<84, 88>>], [int |-> 2]} }

\* the bytes parse is called with: the encoded commands cut at every length,
\* the firmware responses of the command tests, SAVE_CONFIG_RESPONSE (which
\* has no template in the model) and an id that is no member
WireInputs ==
    UNION { LET encoded == ToBytes(c) IN
            IF Raised(encoded) THEN {}
            ELSE { Take(encoded.data, n) : n \in 0..Len(encoded.data) } :
                c \in CompleteCommands }
    \cup { <<7, 65, 0, 2, 5, 0, 1, 0, 1, 0>>, <<7, 65, 0, 2, 2, 0, 1, 0, 3, 0, 0, 0>>,
           <<7, 133, 0>>, <<255, 255>>, <<7, 129, 0, 255>>, <<7, 251, 0, 233>> }

\* templates _pack_parameters and _unpack_parameters are called with
\* directly: a select variable, a select whose default entry stands first,
\* last or nowhere among cases that overlap, and a last field; and two refs,
\* one of them to a fragment the definitions do not have
SelectTemplates ==
    LET variable == [name |-> "config_id", type |-> "enum:", of |-> "SR920ConfigId",
                     length |-> 1]
        last == [name |-> "last", type |-> "int", length |-> 1]
        a == [case |-> {"TX_POWER"}, parameters |-> <<
                 [name |-> "a", type |-> "int", length |-> 1] >>]
        b == [case |-> {"TX_POWER", "LED"}, parameters |-> <<
                 [type |-> "int", length |-> 1, value |-> 11],
                 [name |-> "b", type |-> "int", length |-> 2] >>]
        d == [default |-> << [name |-> "d", type |-> "int", length |-> 1] >>]
        select(cases) == <<variable, [type |-> "select:", of |-> "config_id", cases |-> cases],
                           last>>
    IN { select(<<d, a, b>>), select(<<a, d, b>>), select(<<b, a, d>>), select(<<b, a>>),
         select(<<>>) }

RefTemplates ==
    { << [type |-> "ref:", of |-> "link"] >>, << [type |-> "ref:", of |-> "node"] >>,
      << [type |-> "int", length |-> 1, value |-> 1], [type |-> "ref:", of |-> "node"] >> }

\* the arguments of the direct _pack_parameters calls
PackInputs ==
    { [parameters |-> p, templates |-> t] :
          t \in SelectTemplates,
          p \in { Without([config_id |-> Member("SR920ConfigId", c), a |-> [int |-> 1],
                           b |-> [int |-> 2], d |-> [int |-> 3], last |-> [int |-> 4]], n) :
                      c \in {"TX_POWER", "LED", "MAC_ADDRESS"},
                      n \in {"", "config_id", "a", "b", "d"} } }
    \cup { [parameters |-> p, templates |-> t] :
               t \in RefTemplates,
               p \in { <<>>, [child |-> [str |-> <<48, 48, 49, 48>>],
                              parent |-> [str |-> <<48, 48, 48, 49>>]] } }

\* the arguments of the direct _unpack_parameters calls: what the direct
\* _pack_parameters calls returned, cut at every length
UnpackInputs ==
    UNION { LET packed == PackParameters(i.parameters, i.templates) IN
            IF Raised(packed) THEN {}
            ELSE { [data |-> [bytes |-> Take(packed.data, n)], templates |-> i.templates] :
                       n \in 0..Len(packed.data) } :
                i \in PackInputs }

(***************************************************************************)
(* The codec calls as steps: one call is made, and after a to_bytes call   *)
(* that returned, parse may be called with the bytes it returned.          *)
(***************************************************************************)
CodecIdle ==
    /\ codec_pc = "idle"
    /\ codec_in = None
    /\ codec_out = None

\* command.to_bytes()
call_to_bytes ==
    /\ codec_pc = "idle"
    /\ \E command \in CodecCommands :
          /\ codec_in' = [command |-> command]
          /\ codec_out' = ToBytes(command)
    /\ codec_pc' = "to_bytes"
    /\ UNCHANGED notCodecVars

\* SR920Command.parse(command.to_bytes())
call_parse_encoded ==
    /\ codec_pc = "to_bytes"
    /\ ~Raised(codec_out)
    /\ codec_in' = [command |-> codec_in.command, data |-> codec_out.data]
    /\ codec_out' = Parse(codec_out.data)
    /\ codec_pc' = "parse"
    /\ UNCHANGED notCodecVars

\* SR920Command.parse(data) for received bytes
call_parse ==
    /\ codec_pc = "idle"
    /\ \E octets \in WireInputs :
          /\ codec_in' = [data |-> octets]
          /\ codec_out' = Parse(octets)
    /\ codec_pc' = "parse"
    /\ UNCHANGED notCodecVars

\* SR920Command._pack_parameters(parameters, templates)
call_pack_parameters ==
    /\ codec_pc = "idle"
    /\ \E input \in PackInputs :
          /\ codec_in' = input
          /\ codec_out' = PackParameters(input.parameters, input.templates)
    /\ codec_pc' = "_pack_parameters"
    /\ UNCHANGED notCodecVars

\* SR920Command._unpack_parameters({}, data, templates)
call_unpack_parameters ==
    /\ codec_pc = "idle"
    /\ \E input \in UnpackInputs :
          /\ codec_in' = input
          /\ codec_out' = UnpackParameters(<<>>, input.data, input.templates)
    /\ codec_pc' = "_unpack_parameters"
    /\ UNCHANGED notCodecVars

CodecNext ==
    \/ call_to_bytes
    \/ call_parse_encoded
    \/ call_parse
    \/ call_pack_parameters
    \/ call_unpack_parameters

(***************************************************************************)
(* The two mutexes.  Four threads run the code that takes them: the reader *)
(* thread in _on_command_received, the measurement worker, a thread that   *)
(* calls start / abort / get_result_radio_measurement and a thread that    *)
(* calls get_response.  A "with lock:" block is two steps: the acquisition *)
(* waits until the lock is free, and the body ends with the release.       *)
(* Every step records the accesses it makes to the pending buffer and to   *)
(* the session, each with the locks its thread holds.                      *)
(***************************************************************************)
MEASURE_RADIO_STATUS_REQUEST == 834

LockThreads == {"reader", "caller", "poller", "worker"}

\* the threads that call get_response
LockCallers == {"caller", "poller"}

NoThread == [pc |-> "idle", op |-> "none", step |-> "", request |-> None,
             result |-> "none", calls |-> 0]

LocksIdle ==
    /\ received_commands_lock = "free"
    /\ measurement_lock = "free"
    /\ thread = [t \in LockThreads |->
                    IF t = "worker" THEN [NoThread EXCEPT !.pc = "unstarted"] ELSE NoThread]
    /\ accessed = {}

\* the locks thread t holds
Holds(t) ==
    (IF received_commands_lock = t THEN {"_received_commands_lock"} ELSE {})
        \cup (IF measurement_lock = t THEN {"_measurement_lock"} ELSE {})

\* thread t reads or writes the field, holding what it holds
Access(t, field, kind) == [thread |-> t, field |-> field, kind |-> kind, held |-> Holds(t)]

\* the commands the reader delivers: the report that ends a measurement, a
\* reply to a measurement request, a reply to GET_VERSION and a notification
LockInbound ==
    MeasurementInbound
        \cup { [command_id |-> GET_VERSION_RESPONSE, parameters |-> [result |-> 0]],
               [command_id |-> NETWORK_STATE_CHANGED_NOTIFICATION,
                parameters |-> [state |-> 3]] }

\* MEASURE_RADIO_STATUS_REQUEST with the mode
LockRequest(mode) ==
    [command_id |-> MEASURE_RADIO_STATUS_REQUEST, parameters |-> [mode |-> mode]]

\* thread t goes on at position p
Goto(t, p) == [thread EXCEPT ![t].pc = p]

\* thread t enters get_response(req, retry): the retry argument is left
\* open, a round that timed out may be followed by any number of others
Enter(t, op, step, req) ==
    [thread EXCEPT ![t] = [pc |-> "purge_acquire", op |-> op, step |-> step,
                           request |-> req, result |-> "none", calls |-> @.calls]]

\* thread t returns value from its call
Return(t, value) == [thread EXCEPT ![t] = [NoThread EXCEPT !.result = value,
                                                            !.calls = thread[t].calls]]

\* the worker thread is running
WorkerAlive == thread["worker"].pc \notin {"unstarted", "done"}

\* a variant that keeps the lock until abort_radio_measurement returns
AfterAbortCheckHeld(t) == t

\* the holder of the lock after the first "with self._measurement_lock:"
\* block of abort_radio_measurement is left
AfterAbortCheck(t) == "free"

\* _on_command_received on the reader thread
on_command_received_locked ==
    LET me == thread["reader"] IN
    /\ \/ /\ me.pc = "idle"
          /\ inbound.uid < MaxLockReceived
          /\ \E cmd \in LockInbound :
                /\ inbound' = [command_id |-> cmd.command_id, parameters |-> cmd.parameters,
                               uid |-> inbound.uid + 1]
                /\ thread' = IF IsNotification(cmd.command_id) THEN thread
                             ELSE Goto("reader", "acquire")
          /\ accessed' = {}
          /\ UNCHANGED <<received_commands, received_commands_lock>>
       \/ /\ me.pc = "acquire"
          /\ received_commands_lock = "free"
          /\ received_commands_lock' = "reader"
          /\ thread' = Goto("reader", "append")
          /\ accessed' = {}
          /\ UNCHANGED <<received_commands, inbound>>
       \/ /\ me.pc = "append"
          /\ received_commands' =
                 Append(received_commands, [command_id |-> inbound.command_id,
                                            parameters |-> inbound.parameters])
          /\ accessed' = {Access("reader", "_received_commands", "append")}
          /\ received_commands_lock' = "free"
          /\ thread' = Goto("reader", "idle")
          /\ UNCHANGED inbound
    /\ UNCHANGED <<notification_handler, notified, pc, request, retry, result, call>>
    /\ UNCHANGED <<measurement, measurement_completed, worker, client, measurement_lock>>
    /\ UNCHANGED notLockVars

\* get_response on thread t: the purge under the pending-buffer lock, the
\* send, and the polling loop that takes the lock for every scan; the
\* poller thread enters it with a GET_VERSION_REQUEST
get_response_locked(t) ==
    LET me == thread[t] IN
    /\ \/ /\ t = "poller"
          /\ me.pc \in {"idle", "returned"}
          /\ me.calls < MaxLockCalls
          /\ thread' = [Enter(t, "get_response", "",
                              [command_id |-> GET_VERSION_REQUEST,
                               parameters |-> NoParameters])
                           EXCEPT ![t].calls = @ + 1]
          /\ accessed' = {}
          /\ UNCHANGED <<received_commands, received_commands_lock>>
       \/ /\ me.pc \in {"purge_acquire", "poll_acquire"}
          /\ received_commands_lock = "free"
          /\ received_commands_lock' = t
          /\ thread' = Goto(t, IF me.pc = "purge_acquire" THEN "purge" ELSE "poll")
          /\ accessed' = {}
          /\ UNCHANGED received_commands
       \/ /\ me.pc = "purge"
          /\ received_commands' =
                 RemoveOldResponses(received_commands, ResponseId(me.request))
          /\ accessed' = {Access(t, "_received_commands", "scan"),
                          Access(t, "_received_commands", "remove")}
          /\ received_commands_lock' = "free"
          /\ thread' = Goto(t, "wait")
       \/ /\ me.pc = "wait"
          /\ \/ thread' = Goto(t, "poll_acquire")
             \/ thread' = Goto(t, "purge_acquire")
             \/ thread' = [thread EXCEPT ![t].pc = "returned", ![t].result = "None"]
          /\ accessed' = {}
          /\ UNCHANGED <<received_commands, received_commands_lock>>
       \/ /\ me.pc = "poll"
          /\ LET found == ScanLoop(received_commands, 1, me.request, ResponseId(me.request))
             IN IF found.outcome = "return"
                THEN /\ received_commands' =
                            RemoveFirst(received_commands, received_commands[found.index])
                     /\ accessed' = {Access(t, "_received_commands", "scan"),
                                     Access(t, "_received_commands", "remove")}
                     /\ thread' = [thread EXCEPT ![t].pc = "returned",
                                                 ![t].result = "response"]
                ELSE /\ UNCHANGED received_commands
                     /\ accessed' = {Access(t, "_received_commands", "scan")}
                     /\ thread' = IF found.outcome = "KeyError"
                                  THEN [thread EXCEPT ![t].pc = "returned",
                                                      ![t].result = "KeyError"]
                                  ELSE Goto(t, "wait")
          /\ received_commands_lock' = "free"
    /\ UNCHANGED <<notification_handler, notified, inbound, pc, request, retry, result, call>>
    /\ UNCHANGED <<measurement, measurement_completed, worker, client, measurement_lock>>
    /\ UNCHANGED notLockVars

\* start_radio_measurement on the caller thread, for one destination: the
\* START_RECEIVE and START_SEND transactions, then the event, the session
\* and the worker thread; the call is made when no worker of an earlier
\* measurement is running, so that one worker thread is followed
start_radio_measurement_locked ==
    LET me == thread["caller"] IN
    /\ \/ /\ me.pc = "idle"
          /\ me.calls < MaxLockCalls
          /\ ~WorkerAlive
          /\ thread' = [Enter("caller", "start", "START_RECEIVE",
                              LockRequest("START_RECEIVE"))
                           EXCEPT !["caller"].calls = @ + 1]
          /\ accessed' = {}
          /\ UNCHANGED <<measurement, measurement_completed>>
       \/ /\ me.pc = "returned"
          /\ me.op = "start"
          /\ thread' = IF me.result # "response" THEN Return("caller", "None")
                       ELSE IF me.step = "START_RECEIVE"
                       THEN Enter("caller", "start", "START_SEND",
                                  LockRequest("START_SEND"))
                       ELSE Goto("caller", "create")
          /\ accessed' = {}
          /\ UNCHANGED <<measurement, measurement_completed>>
       \/ /\ me.pc = "create"
          /\ measurement_completed' = FALSE
          /\ measurement' = [kind |-> "session", id |-> me.calls, source |-> "0010",
                             destinations |-> <<"0011">>, end |-> FALSE, count_sent |-> 0]
          /\ accessed' = {Access("caller", "_measurement", "create")}
          /\ thread' = Goto("caller", "start_worker")
       \/ /\ me.pc = "start_worker"
          /\ accessed' = {Access("caller", "_measurement", "read")}
          /\ thread' = IF measurement = None THEN Return("caller", "TypeError")
                       ELSE [Return("caller", "event") EXCEPT !["worker"].pc = "wait"]
          /\ UNCHANGED <<measurement, measurement_completed>>
    /\ UNCHANGED <<received_commands_lock, measurement_lock>>
    /\ UNCHANGED <<engineVars, worker, client>>
    /\ UNCHANGED notLockVars

\* abort_radio_measurement on the caller thread
abort_radio_measurement_locked ==
    LET me == thread["caller"] IN
    /\ \/ /\ me.pc = "idle"
          /\ me.calls < MaxLockCalls
          /\ thread' = [thread EXCEPT !["caller"].pc = "abort_acquire",
                                      !["caller"].op = "abort",
                                      !["caller"].result = "none",
                                      !["caller"].calls = @ + 1]
          /\ accessed' = {}
          /\ UNCHANGED <<measurement, measurement_lock>>
       \/ /\ me.pc \in {"abort_acquire", "abort_clear_acquire"}
          /\ measurement_lock = "free"
          /\ measurement_lock' = "caller"
          /\ thread' = Goto("caller", IF me.pc = "abort_acquire" THEN "abort_check"
                                      ELSE "abort_clear")
          /\ accessed' = {}
          /\ UNCHANGED measurement
       \/ /\ me.pc = "abort_check"
          /\ accessed' = {Access("caller", "_measurement", "read")}
          /\ IF measurement = None
             THEN thread' = Return("caller", "False") /\ measurement_lock' = "free"
             ELSE IF measurement.end
             THEN thread' = Return("caller", "True") /\ measurement_lock' = "free"
             ELSE /\ thread' = Enter("caller", "abort", "ABORT", LockRequest("ABORT"))
                  /\ measurement_lock' = AfterAbortCheck("caller")
          /\ UNCHANGED measurement
       \/ /\ me.pc = "returned"
          /\ me.op = "abort"
          /\ thread' = IF me.result = "response" THEN Goto("caller", "abort_clear_acquire")
                       ELSE Return("caller", "False")
          /\ accessed' = {}
          /\ UNCHANGED <<measurement, measurement_lock>>
       \/ /\ me.pc = "abort_clear"
          /\ measurement' = None
          /\ accessed' = {Access("caller", "_measurement", "clear")}
          /\ measurement_lock' = "free"
          /\ thread' = Return("caller", "True")
    /\ UNCHANGED <<received_commands_lock, measurement_completed>>
    /\ UNCHANGED <<engineVars, worker, client>>
    /\ UNCHANGED notLockVars

\* get_result_radio_measurement on the caller thread, for one destination:
\* the session is read without a lock, the worker is joined, and the
\* session is read again for the query
get_result_radio_measurement_locked ==
    LET me == thread["caller"] IN
    /\ \/ /\ me.pc = "idle"
          /\ me.calls < MaxLockCalls
          /\ thread' = [(IF measurement = None THEN Return("caller", "None")
                         ELSE Goto("caller", "join"))
                           EXCEPT !["caller"].op = "get_result", !["caller"].calls = @ + 1]
       \/ /\ me.pc = "join"
          /\ ~WorkerAlive
          /\ thread' = IF measurement = None THEN Return("caller", "TypeError")
                       ELSE Enter("caller", "get_result", "GET_RESULT",
                                  LockRequest("GET_RESULT"))
       \/ /\ me.pc = "returned"
          /\ me.op = "get_result"
          /\ thread' = Return("caller", IF me.result = "response" THEN "results" ELSE "None")
    /\ accessed' = IF me.pc = "returned" THEN {}
                   ELSE {Access("caller", "_measurement", "read")}
    /\ UNCHANGED <<received_commands_lock, measurement_lock>>
    /\ UNCHANGED <<measurement, measurement_completed>>
    /\ UNCHANGED <<engineVars, worker, client>>
    /\ UNCHANGED notLockVars

\* _measurement_worker on the worker thread
measurement_worker_locked ==
    LET me == thread["worker"] IN
    /\ \/ /\ me.pc = "wait"
          /\ \E fired \in BOOLEAN :
                thread' = Goto("worker", IF fired THEN "clear_acquire" ELSE "acquire")
          /\ accessed' = {}
          /\ UNCHANGED <<measurement, measurement_completed, measurement_lock>>
       \/ /\ me.pc \in {"acquire", "clear_acquire"}
          /\ measurement_lock = "free"
          /\ measurement_lock' = "worker"
          /\ thread' = Goto("worker", IF me.pc = "acquire" THEN "scan" ELSE "clear")
          /\ accessed' = {}
          /\ UNCHANGED <<measurement, measurement_completed>>
       \/ /\ me.pc = "scan"
          /\ IF measurement = None
             THEN /\ accessed' = {Access("worker", "_measurement", "read")}
                  /\ thread' = Goto("worker", "set")
                  /\ UNCHANGED measurement
             ELSE LET hit == FirstResult(received_commands) IN
                  /\ accessed' = {Access("worker", "_measurement", "read"),
                                  Access("worker", "_received_commands", "scan")}
                                     \cup (IF hit = 0 THEN {}
                                           ELSE {Access("worker", "_measurement", "end")})
                  /\ measurement' =
                         IF hit = 0 THEN measurement
                         ELSE [measurement EXCEPT !.end = TRUE,
                                   !.count_sent = received_commands[hit].parameters.count]
                  /\ thread' = Goto("worker", IF hit # 0 \/ measurement.end THEN "set"
                                              ELSE "wait")
          /\ measurement_lock' = "free"
          /\ UNCHANGED measurement_completed
       \/ /\ me.pc = "clear"
          /\ measurement' = None
          /\ accessed' = {Access("worker", "_measurement", "clear")}
          /\ measurement_lock' = "free"
          /\ thread' = Goto("worker", "set")
          /\ UNCHANGED measurement_completed
       \/ /\ me.pc = "set"
          /\ measurement_completed' = TRUE
          /\ thread' = Goto("worker", "done")
          /\ accessed' = {}
          /\ UNCHANGED <<measurement, measurement_lock>>
    /\ UNCHANGED received_commands_lock
    /\ UNCHANGED <<engineVars, worker, client>>
    /\ UNCHANGED notLockVars

LocksNext ==
    \/ on_command_received_locked
    \/ \E t \in LockCallers : get_response_locked(t)
    \/ start_radio_measurement_locked
    \/ abort_radio_measurement_locked
    \/ get_result_radio_measurement_locked
    \/ measurement_worker_locked

\* no workflow has been started
WorkflowIdle == UpdateIdle /\ MeasurementIdle /\ ListIdle /\ CodecIdle /\ LocksIdle

UpdateNext ==
    \/ update
    \/ update_get_response
    \/ update_response
    \/ update_timed_out

InitUpdate == FrameInit /\ EscIdle /\ WriterStarted /\ EngineInit /\ WorkflowIdle

SpecUpdate == InitUpdate /\ [][UpdateNext]_vars

MeasurementNext ==
    \/ measurement_received
    \/ start_radio_measurement
    \/ start_receive
    \/ start_send
    \/ measurement_poll
    \/ measurement_timed_out
    \/ start_clear_event
    \/ start_create
    \/ start_worker
    \/ abort_radio_measurement
    \/ abort_request
    \/ abort_clear
    \/ get_result_radio_measurement
    \/ get_result_query
    \/ \E w \in Workers : worker_poll(w)
    \/ \E w \in Workers : worker_timeout(w)
    \/ \E w \in Workers : worker_clear(w)
    \/ \E w \in Workers : worker_set(w)

InitMeasurement == FrameInit /\ EscIdle /\ WriterStarted /\ EngineInit /\ WorkflowIdle

SpecMeasurement == InitMeasurement /\ [][MeasurementNext]_vars

\* the worker threads and the timers are scheduled: a step a worker can take
\* is taken, and a started timer fires
SpecMeasurementFair ==
    /\ SpecMeasurement
    /\ \A w \in Workers :
          /\ WF_vars(worker_timeout(w))
          /\ WF_vars(worker_clear(w))
          /\ WF_vars(worker_set(w))

InitLocks == FrameInit /\ EscIdle /\ WriterStarted /\ EngineInit /\ WorkflowIdle

SpecLocks == InitLocks /\ [][LocksNext]_vars

InitCodec == FrameInit /\ EscIdle /\ WriterStarted /\ EngineInit /\ WorkflowIdle

SpecCodec == InitCodec /\ [][CodecNext]_vars

InitList == FrameInit /\ EscIdle /\ WriterStarted /\ EngineInit /\ WorkflowIdle

SpecList == InitList /\ [][ListNext]_vars

(***************************************************************************)
(* Specifications.                                                         *)
(***************************************************************************)
\* the inbound frame parser alone
FrameNext == set_command_received_handler \/ data_received

InitFrame == FrameInit /\ EscIdle /\ WriterInit /\ EngineInit /\ WorkflowIdle

SpecFrame == InitFrame /\ [][FrameNext]_vars

\* escaping and unescaping of a byte string
EscapeNext == do_escape \/ do_unescape

InitEscape == FrameInit /\ EscInit /\ WriterInit /\ EngineInit /\ WorkflowIdle

SpecEscape == InitEscape /\ [][EscapeNext]_vars

\* the outbound queue, its producers and the writer thread
WriterNext ==
    \/ connection_made
    \/ connection_lost
    \/ send_command
    \/ writer_while
    \/ writer_dequeue
    \/ writer_write

InitWriter == FrameInit /\ EscIdle /\ WriterInit /\ EngineInit /\ WorkflowIdle

SpecWriter == InitWriter /\ [][WriterNext]_vars

\* the writer thread is scheduled again and again
SpecWriterFair ==
    /\ SpecWriter
    /\ WF_vars(writer_while)
    /\ WF_vars(writer_dequeue)
    /\ WF_vars(writer_write)

\* the transaction engine on an open connection.  The writer thread's steps
\* are those of SpecWriter: they change the outbound side only, which
\* get_response never reads, and are left out here.
Init == FrameInit /\ EscIdle /\ WriterStarted /\ EngineInit /\ WorkflowIdle

Next ==
    \/ set_notification_handler
    \/ on_command_received
    \/ \E t \in Callers : get_response(t)
    \/ \E t \in Callers : remove_old_responses(t)
    \/ \E t \in Callers : submit_request(t)
    \/ \E t \in Callers : poll(t)
    \/ \E t \in Callers : timed_out(t)

Spec == Init /\ [][Next]_vars

(***************************************************************************)
(* Properties.                                                             *)
(***************************************************************************)

\* C1: whenever get_response returns a command, the command's id is the
\* request's id + 1 and, if the command carries seq_no, its seq_no equals the
\* request's seq_no, whatever the pending buffer holds.
C1_ReturnedMatchesRequest ==
    \A t \in Callers :
        (pc[t] = "returned" /\ result[t].kind = "response") =>
            LET response == result[t].command IN
            /\ response.command_id = request[t].command_id + 1
            /\ "seq_no" \in DOMAIN response.parameters =>
                   /\ "seq_no" \in DOMAIN request[t].parameters
                   /\ response.parameters.seq_no = request[t].parameters.seq_no

\* a response with the request's seq_no was returned although a response with
\* the same id and another seq_no, received before it, is in the buffer
C1_Witness ==
    \E t \in Callers :
        /\ pc[t] = "returned"
        /\ result[t].kind = "response"
        /\ "seq_no" \in DOMAIN result[t].command.parameters
        /\ \E i \in 1..Len(received_commands) :
              /\ received_commands[i].command_id = result[t].command.command_id
              /\ received_commands[i].uid < result[t].command.uid

\* C2: the purge step of get_response leaves no entry with the expected id
\* in the pending buffer, and keeps the other entries in their order.
C2_PurgeRemovesEveryExpected ==
    [][\A t \in Callers :
          (pc[t] = "purge" /\ pc'[t] = "send") =>
              LET Kept(e) == e.command_id # request[t].command_id + 1
              IN received_commands' = SelectSeq(received_commands, Kept)]_vars

\* C3: when every round times out, get_response(request, retry = r) has
\* passed the same request to send_command r + 1 times, one per round, each
\* after the round before it timed out, and returns None; it never raises.
C3_RetransmitsThenNone ==
    \A t \in Callers :
        LET c == call[t] IN
        /\ \A i \in 1..Len(c.submitted) : c.submitted[i] = request[t]
        /\ pc[t] \in {"purge", "send"} => Len(c.submitted) = c.timeouts
        /\ pc[t] = "wait" => Len(c.submitted) = c.timeouts + 1
        /\ c.timeouts <= c.retry0 + 1
        /\ pc[t] \in {"purge", "send", "wait"} => c.timeouts <= c.retry0
        /\ pc[t] = "returned" =>
              /\ result[t].kind \in {"None", "response"}
              /\ result[t].kind = "None" <=> c.timeouts = c.retry0 + 1
              /\ result[t].kind = "None" => Len(c.submitted) = c.retry0 + 1

\* a call with retry >= 1 returned None after all its rounds
C3_Witness ==
    \E t \in Callers :
        /\ pc[t] = "returned"
        /\ result[t] = None
        /\ call[t].retry0 >= 1
        /\ Len(call[t].submitted) = call[t].retry0 + 1

\* C4: a command get_response returns was received after the purge step of
\* the round that returns it.
C4_NeverReturnsStale ==
    \A t \in Callers :
        (pc[t] = "returned" /\ result[t].kind = "response") =>
            result[t].command.uid > call[t].purged_at

\* C5: a received command whose name ends in NOTIFICATION goes to the
\* notification handler (if one is set) and leaves the pending buffer as it
\* is; any other command is appended to the pending buffer and the handler
\* is not called; so the pending buffer never holds a notification.
C5_NotificationsNeverBuffered ==
    /\ [](\A i \in 1..Len(received_commands) :
             received_commands[i].command_id \notin
                 {DATA_RECEIVED_NOTIFICATION, NETWORK_STATE_CHANGED_NOTIFICATION})
    /\ [][inbound'.uid # inbound.uid =>
             IF inbound'.command_id \in
                    {DATA_RECEIVED_NOTIFICATION, NETWORK_STATE_CHANGED_NOTIFICATION}
             THEN /\ received_commands' = received_commands
                  /\ notified' = IF notification_handler
                                 THEN Append(notified, inbound')
                                 ELSE notified
             ELSE /\ received_commands' = Append(received_commands, inbound')
                  /\ notified' = notified]_vars

\* a notification has been handed to the handler and a response is buffered
C5_Witness ==
    /\ notified # <<>>
    /\ received_commands # <<>>

\* C6: a SYN processed in IN_COMMAND, whatever the buffer holds, ends with
\* the handler called once, the buffer empty and the parser in IDLE.
C6_SynInCommandDelivers ==
    [][(/\ command_received_handler
        /\ parser.alive /\ parser.in_command /\ ~parser.in_dummy
        /\ data' = <<SYN>> /\ fed' = fed + 1)
       => (/\ parser'.alive
           /\ parser'.buffer = <<>>
           /\ ~parser'.in_command /\ ~parser'.in_dummy
           /\ Len(parser'.handled) = Len(parser.handled) + 1)]_vars

\* C7: the commands handed to the handler, the parser's state and its buffer
\* are the same however the inbound bytes are split into data_received calls:
\* they are what one call per byte gives.
C7_ChunkingIrrelevant == parser = byte_parser

\* a frame was completed by the call data_received(b"\x31\x7e"), which began
\* between the two bytes of the frame's command id
C7_Witness ==
    /\ Len(parser.handled) = 1
    /\ data = <<49, SYN>>
    /\ ~parser.in_command
    /\ fed <= 5

\* C8: unescape(escape(x)) = x for every byte string x.
C8_UnescapeInvertsEscape ==
    esc_pc = "unescaped" => unescaped = payload

\* a string that begins with SYN and ends with ESC went through both
C8_Witness ==
    /\ esc_pc = "unescaped"
    /\ Len(payload) >= 2
    /\ payload[1] = SYN
    /\ payload[Len(payload)] = ESC

\* the bytes the claim gives for an escaped payload
RECURSIVE C9_Escaped(_)
C9_Escaped(bytes) ==
    IF bytes = <<>> THEN <<>>
    ELSE (IF Head(bytes) = 125 THEN <<125, 93>>
          ELSE IF Head(bytes) = 126 THEN <<125, 94>>
          ELSE <<Head(bytes)>>) \o C9_Escaped(Tail(bytes))

\* the tags of a sequence of commands
C9_Tags(cmds) == [i \in 1..Len(cmds) |-> cmds[i].tag]

\* C9: every write of the writer loop is 0xFF x 7, 0x7E, 0x7E, the escaped
\* encoding of one dequeued command, 0x7E; each command is written once, and
\* the commands are written in the order send_command accepted them.  (The
\* command the writer holds is the one being written; it stays unwritten if
\* the handle was cleared under the writer.)
C9_WritesAreFramesInOrder ==
    /\ \A i \in 1..Len(written) :
          written[i].bytes =
              <<255, 255, 255, 255, 255, 255, 255, 126, 126>>
                  \o C9_Escaped(to_bytes(written[i].cmd)) \o <<126>>
    /\ LET held == IF writer_pc \in {"write", "error"} THEN <<cmd_to_send.tag>> ELSE <<>>
           order == C9_Tags([i \in 1..Len(written) |-> written[i].cmd])
                        \o held \o C9_Tags(queue_out)
       IN /\ \A i \in 1..Len(order) : \A j \in 1..Len(order) :
                 i < j => order[i] < order[j]
          /\ {order[i] : i \in 1..Len(order)} = (1..sends) \ dropped

\* two commands were written, one of them with ESC and SYN in its encoding
C9_Witness ==
    /\ Len(written) >= 2
    /\ \E i \in 1..Len(written) :
          /\ written[i].cmd.command_id = GET_LINK_LIST_REQUEST
          /\ written[i].cmd.parameters.seq_no = 32381

\* C10: the outbound queue never holds more than 5 commands; send_command
\* can always be taken (it does not wait for room); on a queue of 5 it leaves
\* the queue as it is and the new command is never written; on a shorter
\* queue it appends the command at the tail.
C10_FullQueueDropsNewCommand ==
    /\ [](Len(queue_out) <= 5)
    /\ [](sends < MaxSends => ENABLED send_command)
    /\ [](\A tag \in dropped :
             /\ \A i \in 1..Len(written) : written[i].cmd.tag # tag
             /\ \A i \in 1..Len(queue_out) : queue_out[i].tag # tag
             /\ cmd_to_send.tag # tag)
    /\ [][sends' = sends + 1 =>
             IF Len(queue_out) = 5
             THEN /\ queue_out' = queue_out
                  /\ dropped' = dropped \cup {sends'}
             ELSE /\ Len(queue_out') = Len(queue_out) + 1
                  /\ SubSeq(queue_out', 1, Len(queue_out)) = queue_out
                  /\ queue_out'[Len(queue_out')].tag = sends'
                  /\ dropped' = dropped]_vars

\* a command was dropped on a full queue and the writer has written since
C10_Witness ==
    /\ dropped # {}
    /\ Len(written) >= 1

(***************************************************************************)
(* Two callers of get_response at once.                                    *)
(***************************************************************************)
TwoCallers == {1, 2}
\* number of commands the module delivers while the two calls run
MaxTwoCallersReceived == 2
\* largest retry argument of the two calls
MaxTwoCallersRetry == 0

\* get_response has been entered and has not returned
InCall(t) == pc[t] \in {"purge", "send", "wait"}

\* the engine's state with two client threads
TwoCallersEngineInit ==
    /\ received_commands = <<>>
    /\ notification_handler = FALSE
    /\ notified = <<>>
    /\ inbound = NoInbound
    /\ pc = [t \in TwoCallers |-> "idle"]
    /\ request = [t \in TwoCallers |-> [command_id |-> GET_VERSION_REQUEST,
                                        parameters |-> NoParameters]]
    /\ retry = [t \in TwoCallers |-> 0]
    /\ result = [t \in TwoCallers |-> None]
    /\ call = [t \in TwoCallers |-> NewCall]

\* a client thread makes its call of get_response while the other thread's
\* call, if it is running, expects a different response id
get_response_other_id(t) ==
    /\ pc[t] = "idle"
    /\ get_response(t)
    /\ retry'[t] <= MaxTwoCallersRetry
    /\ \A u \in TwoCallers \ {t} :
          InCall(u) => ResponseId(request'[t]) # ResponseId(request[u])

InitTwoCallers == FrameInit /\ EscIdle /\ WriterStarted /\ TwoCallersEngineInit /\ WorkflowIdle

\* the reader thread delivers a command while the two calls run
on_command_received_two_callers ==
    /\ inbound.uid < MaxTwoCallersReceived
    /\ on_command_received

TwoCallersNext ==
    \/ on_command_received_two_callers
    \/ \E t \in TwoCallers : get_response_other_id(t)
    \/ \E t \in TwoCallers : remove_old_responses(t)
    \/ \E t \in TwoCallers : submit_request(t)
    \/ \E t \in TwoCallers : poll(t)
    \/ \E t \in TwoCallers : timed_out(t)

SpecTwoCallers == InitTwoCallers /\ [][TwoCallersNext]_vars

\* the entries of the buffer a call with this request is waiting for
C11_Matching(req) ==
    { i \in 1..Len(received_commands) :
         /\ received_commands[i].command_id = ResponseId(req)
         /\ "seq_no" \in DOMAIN received_commands[i].parameters =>
                received_commands[i].parameters.seq_no = req.parameters.seq_no }

\* C11: of two get_response calls that run at once with different expected
\* ids, no step of a call (purge, send, poll, timeout) removes or returns an
\* entry whose id is not the call's expected id; so a response a call waits
\* for stays in the buffer until that call's own poll, which can be taken
\* and returns it.
C11_CallsDoNotInterfere ==
    /\ [](\A t \in TwoCallers :
             /\ (pc[t] = "returned" /\ result[t].kind = "response") =>
                    result[t].command.command_id = ResponseId(request[t])
             /\ (pc[t] = "wait" /\ C11_Matching(request[t]) # {}) => ENABLED poll(t))
    /\ [][\A t \in TwoCallers :
             LET Foreign(e) == e.command_id # ResponseId(request[t]) IN
             /\ (InCall(t) /\ (pc'[t] # pc[t] \/ call'[t] # call[t])) =>
                    SelectSeq(received_commands', Foreign)
                        = SelectSeq(received_commands, Foreign)
             /\ (pc[t] = "wait" /\ C11_Matching(request[t]) # {}
                   /\ result'[t] # result[t]) =>
                    /\ result'[t].kind = "response"
                    /\ \E i \in C11_Matching(request[t]) :
                          result'[t].command = received_commands[i]]_vars

\* both calls passed their purge before either response arrived, the response
\* of caller 2 arrived first, and each caller returned its own response
C11_Witness ==
    /\ pc[1] = "returned" /\ pc[2] = "returned"
    /\ result[1].kind = "response" /\ result[2].kind = "response"
    /\ result[1].command.command_id # result[2].command.command_id
    /\ call[1].purged_at = 0 /\ call[2].purged_at = 0
    /\ result[1].command.uid > result[2].command.uid

(***************************************************************************)
(* Properties of the firmware update.                                      *)
(***************************************************************************)

\* C12: in a run of update no WRITE is sent once START has failed (status
\* other than 0, or no response), and no RESET is sent once a WRITE or the
\* CHECK has failed; in each of these cases update has returned False.
C12_FailureStopsTheTransfer ==
    /\ "START" \in failed_subs =>
           /\ "WRITE" \notin sent_subs
           /\ upd_pc = "returned" /\ upd_result = "False"
    /\ failed_subs \cap {"WRITE", "CHECK"} # {} =>
           /\ "RESET" \notin sent_subs
           /\ upd_pc = "returned" /\ upd_result = "False"

\* the second WRITE of an update that began with GET_VERSION got no response
C12_Witness ==
    /\ "WRITE" \in failed_subs
    /\ last_response.kind = "None"
    /\ ~force
    /\ sent_count = 4

\* the number of 1024-byte chunks of the image data
C13_Chunks == (data_len + 1023) \div 1024

\* the length of the whole sequence of sub-commands
C13_Length == (IF force THEN 0 ELSE 1) + 1 + C13_Chunks + 3

\* the k-th (from 0) sub-command of the whole sequence
C13_Expected(k) ==
    LET j == IF force THEN k + 1 ELSE k IN
    IF j = 0 THEN [sub |-> "GET_VERSION", chunk |-> -1]
    ELSE IF j = 1 THEN [sub |-> "START", chunk |-> -1]
    ELSE IF j < 2 + C13_Chunks THEN [sub |-> "WRITE", chunk |-> j - 2]
    ELSE IF j = 2 + C13_Chunks THEN [sub |-> "CHECK", chunk |-> -1]
    ELSE IF j = 3 + C13_Chunks THEN [sub |-> "RESET", chunk |-> -1]
    ELSE [sub |-> "GET_VERSION", chunk |-> -1]

\* C13: the sub-commands update sends, retransmissions aside, are a prefix of
\* GET_VERSION (unless forced), START, one WRITE per 1024-byte chunk in
\* ascending order, CHECK, RESET, GET_VERSION: the k-th one sent is the k-th
\* of that sequence and is sent only after the one before it returned status
\* 0; after a failed step nothing is sent and update returns False; update
\* returns True only after the whole sequence, when the final GET_VERSION
\* reported exactly the image's version.
C13_SubCommandsInSequence ==
    /\ [](sent_count > 0 =>
             /\ sent_count <= C13_Length
             /\ upd_sent.sub_command_id = C13_Expected(sent_count - 1).sub
             /\ upd_sent.sub_command_id = "WRITE" =>
                    upd_sent.page_no * 64 + upd_sent.frame_no
                        = C13_Expected(sent_count - 1).chunk)
    /\ [](failed_subs # {} => upd_pc = "returned" /\ upd_result = "False")
    /\ [](upd_result = "True" =>
             /\ upd_pc = "returned"
             /\ sent_count = C13_Length
             /\ failed_subs = {}
             /\ last_response.kind = "response"
             /\ last_response.status = 0
             /\ last_response.version = version)
    /\ [][/\ sent_count' # sent_count =>
                /\ sent_count' = sent_count + 1
                /\ failed_subs = {}
                /\ sent_count > 0 =>
                       last_response.kind = "response" /\ last_response.status = 0
          /\ (failed_subs # {} \/ upd_pc = "returned") =>
                /\ sent_count' = sent_count
                /\ transmissions' = transmissions
                /\ upd_sent' = upd_sent]_vars

\* an update that was not forced wrote an image of two chunks and returned True
C13_Witness ==
    /\ upd_result = "True"
    /\ ~force
    /\ data_len = 1025
    /\ sent_count = 7

\* C14: the k-th sub-command update sends (k from 0, retransmissions not
\* counted) carries seq_no = k mod 65536, a value in 0..65535, and every
\* retransmission of it carries the same seq_no.
C14_SeqNoCountsSubCommands ==
    /\ [](sent_count > 0 =>
             /\ upd_sent.seq_no = (sent_count - 1) % 65536
             /\ upd_sent.seq_no \in 0..65535)
    /\ [][(sent_count' = sent_count /\ transmissions' # transmissions) =>
             /\ transmissions' = transmissions + 1
             /\ upd_sent'.seq_no = upd_sent.seq_no
             /\ upd_sent' = upd_sent]_vars

\* the third sub-command has been sent three times
C14_Witness ==
    /\ sent_count = 3
    /\ transmissions = 3
    /\ upd_sent.seq_no = 2

\* a is a greater string than b, for strings of one length
C15_Greater(a, b) ==
    \E i \in 1..Len(a) :
        /\ a[i] > b[i]
        /\ \A j \in 1..(i - 1) : a[j] = b[j]

\* C15: without force, START is sent only right after a GET_VERSION that
\* returned status 0 and a version the image's version is strictly greater
\* than; when GET_VERSION fails or the image is not newer, update returns
\* False and GET_VERSION is all it has sent.  With force, START is the first
\* sub-command sent.
C15_VersionGate ==
    /\ []((/\ ~force
           /\ sent_count = 1
           /\ last_response.kind # "pending"
           /\ \/ last_response.kind = "None"
              \/ last_response.status # 0
              \/ ~C15_Greater(version, last_response.version))
          => /\ upd_pc = "returned"
             /\ upd_result = "False"
             /\ sent_subs = {"GET_VERSION"})
    /\ [][("START" \notin sent_subs /\ "START" \in sent_subs') =>
             IF force
             THEN sent_count = 0
             ELSE /\ sent_count = 1
                  /\ sent_subs = {"GET_VERSION"}
                  /\ last_response.kind = "response"
                  /\ last_response.status = 0
                  /\ C15_Greater(version, last_response.version)]_vars

\* update without force returned False because the module runs the image's
\* version
C15_Witness ==
    /\ ~force
    /\ upd_pc = "returned"
    /\ upd_result = "False"
    /\ sent_count = 1
    /\ last_response.kind = "response"
    /\ last_response.status = 0
    /\ last_response.version = version

(***************************************************************************)
(* Properties of the radio status measurement.                             *)
(***************************************************************************)

\* the measurement commands a complete start issues, in order
C16_Expected(c) ==
    [j \in 1..(Len(c.destinations) + 1) |->
        IF j <= Len(c.destinations)
        THEN [mode |-> "START_RECEIVE", target |-> c.destinations[j]]
        ELSE [mode |-> "START_SEND", target |-> c.source]]

\* C16: start_radio_measurement issues START_RECEIVE to the destinations one
\* at a time and in order, and START_SEND to the source only after every
\* START_RECEIVE succeeded; when one of these requests fails it returns None,
\* issues nothing more, creates no session and starts no worker; its session
\* and its worker exist only after START_SEND succeeded.
C16_StartSequence ==
    client.op = "start" =>
        LET c == client
            n == Len(c.destinations)
            created == \/ measurement # None /\ measurement.id = c.call_no
                       \/ worker[c.call_no].pc # "unstarted"
        IN /\ Len(c.sent) <= n + 1
           /\ \A j \in 1..Len(c.sent) : c.sent[j] = C16_Expected(c)[j]
           /\ Len(c.outcomes) \in {Len(c.sent) - 1, Len(c.sent)}
           /\ \A j \in 1..(Len(c.sent) - 1) : c.outcomes[j] = "ok"
           /\ (\E j \in 1..Len(c.outcomes) : c.outcomes[j] # "ok") =>
                  /\ c.pc = "idle"
                  /\ c.result = "None"
                  /\ ~created
           /\ created =>
                  /\ Len(c.outcomes) = n + 1
                  /\ \A j \in 1..(n + 1) : c.outcomes[j] = "ok"

\* START_RECEIVE to the second of two destinations got a result other than
\* 0, and the call returned None after two requests
C16_Witness ==
    /\ client.op = "start"
    /\ client.pc = "idle"
    /\ client.result = "None"
    /\ Len(client.destinations) = 2
    /\ client.outcomes = <<"ok", "fail">>
    /\ Len(client.sent) = 2

\* the session is there and has not recorded its end
C17_Running == measurement # None /\ ~measurement.end

\* C17: every started worker ends and sets the completion event, and it
\* leaves its loop in one of three ways: it found a RESULT response in the
\* buffer, and the session is kept with its end and count_sent recorded; its
\* timer fired, and it then clears the session; or it found the session
\* cleared and records nothing.  The completion event is never set while the
\* session is running.
C17_WorkerEnds ==
    /\ \A w \in Workers : (worker[w].pc = "poll") ~> (worker[w].pc = "done")
    /\ [][\A w \in Workers :
             /\ (worker[w].pc = "poll" /\ worker'[w].pc # "poll") =>
                   \/ /\ measurement # None
                      /\ FirstResult(received_commands) # 0
                      /\ measurement' # None
                      /\ measurement'.end
                      /\ measurement'.count_sent =
                             received_commands[FirstResult(received_commands)].parameters.count
                      /\ worker'[w].pc = "set"
                   \/ /\ worker'[w].pc = "clear"
                      /\ measurement' = measurement
                   \/ /\ measurement = None
                      /\ measurement' = None
                      /\ worker'[w].pc = "set"
             /\ (worker[w].pc = "clear" /\ worker'[w].pc # "clear") =>
                   measurement' = None /\ worker'[w].pc = "set"
             /\ (worker[w].pc = "set" /\ worker'[w].pc # "set") =>
                   measurement_completed' /\ worker'[w].pc = "done"]_vars
    /\ [](measurement_completed => ~C17_Running)

\* C18: abort_radio_measurement with no session sends nothing and returns
\* False; with a session that has recorded its end it sends nothing, returns
\* True and leaves the session as it is; otherwise it sends one ABORT request
\* to the session's source, and returns True with the session cleared if the
\* result is 0, and False with the session as it is if not.
C18_AbortOutcomes ==
    /\ []((client.op = "abort" /\ client.pc = "idle") =>
             CASE client.saw = "none" ->
                      client.sent = <<>> /\ client.result = "False"
               [] client.saw = "ended" ->
                      client.sent = <<>> /\ client.result = "True"
               [] client.saw = "running" ->
                      /\ client.sent = <<[mode |-> "ABORT", target |-> client.source]>>
                      /\ Len(client.outcomes) = 1
                      /\ client.result =
                             IF client.outcomes[1] = "ok" THEN "True" ELSE "False")
    /\ [][(client'.op = "abort" /\ client' # client /\ measurement' # measurement) =>
             /\ client.saw = "running"
             /\ client.outcomes = <<"ok">>
             /\ measurement' = None
             /\ client'.result = "True"]_vars

\* C19: at most one measurement worker thread is alive at any time.
C19_AtMostOneWorker ==
    Cardinality({w \in Workers : Alive(w)}) <= 1

(***************************************************************************)
(* Properties of the paged lists.                                          *)
(***************************************************************************)

\* the lists of the first n pages, one after the other
RECURSIVE C20_Concatenation(_)
C20_Concatenation(n) ==
    IF n = 0 THEN <<>> ELSE C20_Concatenation(n - 1) \o list_pages[n].list

\* C20: get_node_list / get_link_list, called with seq_no 1, issues the
\* requests seq_no 1, 2, ..., each after the page before it came with result
\* 1; when page n is the first with result 0 and all pages before it have
\* result 1, n requests have been issued, none after page n, and the call
\* returns the lists of pages 1..n joined in page order.
C20_PagesInOrder ==
    /\ \A j \in 1..Len(list_requests) : list_requests[j] = j
    /\ Len(list_pages) \in {Len(list_requests) - 1, Len(list_requests)}
    /\ \A j \in 1..(Len(list_requests) - 1) : list_pages[j].result = 1
    /\ LET n == Len(list_pages) IN
       (n > 0 /\ list_pages[n].result = 0) =>
           /\ list_pc = "returned"
           /\ Len(list_requests) = n
           /\ list_result = [kind |-> "list", list |-> C20_Concatenation(n)]

\* three pages with results 1, 1, 0 were fetched, the first page carrying
\* two entries and the last one entry
C20_Witness ==
    /\ list_pc = "returned"
    /\ Len(list_pages) = 3
    /\ list_pages[3].result = 0
    /\ list_pages[1].list = <<2, 1>>
    /\ list_pages[2].list = <<>>
    /\ list_pages[3].list = <<2>>
    /\ list_result.kind = "list"

\* C21: get_node_list / get_link_list returns None, and does not raise,
\* whenever a page of the exchange fails (no response after the retries, or
\* a result other than 0 and 1), also when the failing page is a follow-up
\* page after pages that came with result 1.
C21_FailedPageReturnsNone ==
    LET n == Len(list_pages) IN
    (list_pc = "returned" /\ n > 0 /\ list_pages[n].result \notin {0, 1}) =>
        list_result = None

(***************************************************************************)
(* Properties of the codec.                                                *)
(***************************************************************************)

\* the templates a codec call of the current state applied, and the
\* parameters it was given
C22_Templates ==
    IF codec_pc \in {"_pack_parameters", "_unpack_parameters"} THEN codec_in.templates
    ELSE LET id == IF codec_pc = "to_bytes" THEN codec_in.command.command_id
                   ELSE IntFromBigEndian(Take(codec_in.data, 2), FALSE)
         IN IF GetTemplate(id) = None THEN <<>> ELSE GetTemplate(id).parameters

\* every hex parameter is written in lower case with two digits for each
\* byte of its field, and every str or bytes parameter of a field without a
\* length is not empty
RECURSIVE C22_WireForm(_, _)
C22_WireForm(parameters, templates) ==
    \A i \in 1..Len(templates) :
        LET template == templates[i] IN
        IF template.type = "select:"
        THEN template.of \in DOMAIN parameters =>
                 C22_WireForm(parameters,
                              SelectLoop(parameters[template.of], template.cases, <<>>))
        ELSE IF template.type = "ref:"
        THEN template.of \in DOMAIN Templates.definitions =>
                 C22_WireForm(parameters, Templates.definitions[template.of])
        ELSE IF "value" \in DOMAIN template \/ template.name \notin DOMAIN parameters THEN TRUE
        ELSE LET value == parameters[template.name] IN
             IF template.type = "hex"
             THEN "str" \in DOMAIN value =>
                      /\ Len(value.str) = 2 * template.length
                      /\ \A j \in 1..Len(value.str) : value.str[j] \in (48..57) \cup (97..102)
             ELSE IF template.type = "str" THEN "str" \in DOMAIN value => value.str # <<>>
             ELSE IF template.type = "bytes" THEN "bytes" \in DOMAIN value => value.bytes # <<>>
             ELSE IF template.type = "object"
             THEN "dict" \in DOMAIN value => C22_WireForm(value.dict, template.properties)
             ELSE IF template.type = "array"
             THEN "list" \in DOMAIN value =>
                      \A j \in 1..Len(value.list) :
                          C22_WireForm(template.items.name :> value.list[j], <<template.items>>)
             ELSE TRUE

\* C22 as stated: whenever to_bytes returned for a command, parse of the
\* bytes returns the same id and the same parameters.
C22_RoundTrip ==
    (codec_pc = "parse" /\ "command" \in DOMAIN codec_in) => codec_out = codec_in.command

\* C22: whenever to_bytes returned for a command whose hex parameters are
\* lower case and as wide as their fields and whose str and bytes
\* parameters without a length are not empty, parse of the bytes returns the
\* same id and the same parameters.
C22_RoundTripWireForm ==
    (/\ codec_pc = "parse"
     /\ "command" \in DOMAIN codec_in
     /\ C22_WireForm(codec_in.command.parameters, C22_Templates))
    => codec_out = codec_in.command

\* a READ_CONFIG_RESPONSE with the network address abcd / 0123 was encoded
\* and parsed back
C22_Witness ==
    /\ codec_pc = "parse"
    /\ "command" \in DOMAIN codec_in
    /\ codec_in.command.command_id = CommandIdNames.READ_CONFIG_RESPONSE
    /\ codec_in.data = <<7, 129, 0, 178, 205, 171, 35, 1>>
    /\ codec_in.command.parameters.value.dict.short_address = [str |-> <<97, 98, 99, 100>>]
    /\ codec_out = codec_in.command

\* C23: parse of bytes whose first two bytes are no member of SR920CommandId,
\* or a member without a template, returns a command with that id and no
\* parameters.
C23_UnknownIdParses ==
    (/\ codec_pc = "parse"
     /\ "command" \notin DOMAIN codec_in
     /\ Len(codec_in.data) >= 2
     /\ LET id == IntFromBigEndian(Take(codec_in.data, 2), FALSE) IN
        id \notin SR920CommandId \/ GetTemplate(id) = None)
    => codec_out = [command_id |-> IntFromBigEndian(Take(codec_in.data, 2), FALSE),
                    parameters |-> <<>>]

\* a parameter the templates need is not there: a named field, a select
\* variable, the fragment of a ref, or an enum member for an enum field
RECURSIVE C24_Unresolved(_, _)
C24_Unresolved(parameters, templates) ==
    \E i \in 1..Len(templates) :
        LET template == templates[i] IN
        IF template.type = "select:"
        THEN \/ template.of \notin DOMAIN parameters
             \/ C24_Unresolved(parameters,
                               SelectLoop(parameters[template.of], template.cases, <<>>))
        ELSE IF template.type = "ref:"
        THEN \/ template.of \notin DOMAIN Templates.definitions
             \/ C24_Unresolved(parameters, Templates.definitions[template.of])
        ELSE IF "value" \in DOMAIN template THEN FALSE
        ELSE IF template.name \notin DOMAIN parameters THEN TRUE
        ELSE LET value == parameters[template.name] IN
             IF template.type = "enum:" THEN "enum" \notin DOMAIN value
             ELSE IF template.type = "object"
             THEN "dict" \in DOMAIN value /\ C24_Unresolved(value.dict, template.properties)
             ELSE IF template.type = "array"
             THEN /\ "list" \in DOMAIN value
                  /\ \E j \in 1..Len(value.list) :
                         C24_Unresolved(template.items.name :> value.list[j],
                                        <<template.items>>)
             ELSE FALSE

\* C24: to_bytes and _pack_parameters raise AttributeError, and return no
\* bytes, when a named field or a select variable is missing from the
\* parameters, a ref names no fragment of the definitions, or an enum field
\* has a value that is no enum member; with none of these, constant fields
\* included, they do not raise AttributeError.
C24_MissingRaises ==
    codec_pc \in {"to_bytes", "_pack_parameters"} =>
        LET parameters == IF codec_pc = "to_bytes" THEN codec_in.command.parameters
                          ELSE codec_in.parameters
        IN (codec_out = Raise("AttributeError")) <=> C24_Unresolved(parameters, C22_Templates)

\* _pack_parameters was called with a constant field followed by a ref to a
\* fragment that is not defined, and raised
C24_Witness ==
    /\ codec_pc = "_pack_parameters"
    /\ codec_in.templates = << [type |-> "int", length |-> 1, value |-> 1],
                               [type |-> "ref:", of |-> "node"] >>
    /\ codec_out = Raise("AttributeError")

\* the bytes the fields before the first select, ref, array, object or
\* field without a length take
RECURSIVE C25_FixedLength(_)
C25_FixedLength(templates) ==
    IF templates = <<>> \/ "length" \notin DOMAIN Head(templates)
           \/ Head(templates).type \in {"select:", "ref:", "array", "object"}
    THEN 0
    ELSE Head(templates).length + C25_FixedLength(Tail(templates))

\* C25: parse raises when the bytes after the id are fewer than the
\* fixed-length fields at the head of the template take.
C25_ShortPayloadRaises ==
    (/\ codec_pc = "parse"
     /\ Len(codec_in.data) >= 2
     /\ IntFromBigEndian(Take(codec_in.data, 2), FALSE) \in SR920CommandId
     /\ Len(codec_in.data) - 2 < C25_FixedLength(C22_Templates))
    => Raised(codec_out)

\* the parameters of the first case that lists the value of the select
\* variable (the name of an enum member), else of the default entry,
\* wherever it stands, else none
C26_Branch(value, cases) ==
    LET matching == {i \in 1..Len(cases) : /\ "case" \in DOMAIN cases[i]
                                           /\ "enum" \in DOMAIN value
                                           /\ value.name \in cases[i].case}
        defaults == {i \in 1..Len(cases) : "default" \in DOMAIN cases[i]}
    IN IF matching # {}
       THEN cases[CHOOSE i \in matching : \A j \in matching : i <= j].parameters
       ELSE IF defaults # {} THEN cases[CHOOSE i \in defaults : TRUE].default
       ELSE <<>>

\* the templates with every select whose variable is among the parameters
\* replaced by its branch
RECURSIVE C26_Resolved(_, _)
C26_Resolved(templates, parameters) ==
    IF templates = <<>> THEN <<>>
    ELSE LET template == Head(templates) IN
         IF template.type = "select:" /\ template.of \in DOMAIN parameters
         THEN C26_Resolved(C26_Branch(parameters[template.of], template.cases), parameters)
                  \o C26_Resolved(Tail(templates), parameters)
         ELSE <<template>> \o C26_Resolved(Tail(templates), parameters)

\* C26: a select packs and unpacks as the parameters of the first case that
\* lists the value of its variable and no other, else as the default entry
\* wherever it stands in the list, else as nothing: the bytes produced, the
\* parameters decoded and the bytes left over are those of the templates
\* with the select replaced by that branch.
C26_SelectBranch ==
    /\ codec_pc \in {"to_bytes", "_pack_parameters"} =>
           LET parameters == IF codec_pc = "to_bytes" THEN codec_in.command.parameters
                             ELSE codec_in.parameters
               packed == PackParameters(parameters, C26_Resolved(C22_Templates, parameters))
           IN IF codec_pc = "_pack_parameters" \/ Raised(packed) THEN codec_out = packed
              ELSE codec_out = [data |-> Take(codec_out.data, 2) \o packed.data]
    /\ (codec_pc = "_unpack_parameters" /\ ~Raised(codec_out)) =>
           codec_out = UnpackParameters(<<>>, codec_in.data,
                                        C26_Resolved(C22_Templates, codec_out.parameters))
    /\ (codec_pc = "parse" /\ ~Raised(codec_out) /\ Len(codec_in.data) > 2) =>
           codec_out.parameters =
               UnpackParameters(<<>>, [bytes |-> Drop(codec_in.data, 2)],
                                C26_Resolved(C22_Templates, codec_out.parameters)).parameters

\* a select whose default entry stands before its cases was unpacked for
\* TX_POWER, which two cases list: the first of them gave the parameter a,
\* and the field after the select was read from the bytes that followed
C26_Witness ==
    /\ codec_pc = "_unpack_parameters"
    /\ codec_in.data = [bytes |-> <<2, 1, 4>>]
    /\ Len(codec_in.templates[2].cases) = 3
    /\ "default" \in DOMAIN codec_in.templates[2].cases[1]
    /\ codec_out.parameters = [config_id |-> Member("SR920ConfigId", "TX_POWER"),
                               a |-> [int |-> 1], last |-> [int |-> 4]]

\* C27: to_bytes emits one chunk for each element of an array, and parse
\* yields as many elements as whole chunks fit into the bytes after the
\* fields before the array: 2 bytes an element after 3 bytes for
\* GET_ROUTE_RESPONSE, 4 bytes an element after 5 bytes for
\* GET_LINK_LIST_RESPONSE.
C27_ArrayChunks ==
    LET id == IF codec_pc = "to_bytes" THEN codec_in.command.command_id
              ELSE IntFromBigEndian(Take(codec_in.data, 2), FALSE)
        name == IF id = CommandIdNames.GET_ROUTE_RESPONSE THEN "route_info" ELSE "link_list"
        head == IF id = CommandIdNames.GET_ROUTE_RESPONSE THEN 3 ELSE 5
        chunk == IF id = CommandIdNames.GET_ROUTE_RESPONSE THEN 2 ELSE 4
    IN (/\ codec_pc \in {"to_bytes", "parse"}
        /\ id \in {CommandIdNames.GET_ROUTE_RESPONSE, CommandIdNames.GET_LINK_LIST_RESPONSE}
        /\ ~Raised(codec_out))
       => IF codec_pc = "to_bytes"
          THEN Len(codec_out.data) =
                   head + chunk * Len(codec_in.command.parameters[name].list)
          ELSE (Len(codec_in.data) >= head /\ name \in DOMAIN codec_out.parameters) =>
                   Len(codec_out.parameters[name].list) =
                       (Len(codec_in.data) - head) \div chunk

\* C28: the bytes to_bytes returns for an UPDATE_FIRMWARE_REQUEST begin with
\* 07 40, and parse of bytes that begin with 07 41 returns an
\* UPDATE_FIRMWARE_RESPONSE.
C28_FirmwareUpdateIds ==
    /\ (/\ codec_pc = "to_bytes"
        /\ codec_in.command.command_id = CommandIdNames.UPDATE_FIRMWARE_REQUEST
        /\ ~Raised(codec_out))
       => Take(codec_out.data, 2) = <<7, 64>>
    /\ (codec_pc = "parse" /\ Take(codec_in.data, 2) = <<7, 65>>)
       => /\ ~Raised(codec_out)
          /\ codec_out.command_id = CommandIdNames.UPDATE_FIRMWARE_RESPONSE

(***************************************************************************)
(* Two callers of get_response at once, with any pair of requests: the     *)
(* same response id with the same seq_no, with different seq_no, or        *)
(* different ids.                                                          *)
(***************************************************************************)
\* number of commands the module delivers while the two calls run
MaxSameIdReceived == 2
\* largest retry argument of the two calls
MaxSameIdRetry == 0

\* a client thread makes its call of get_response, whatever the other
\* thread's call expects
get_response_any_id(t) ==
    /\ pc[t] = "idle"
    /\ get_response(t)
    /\ retry'[t] <= MaxSameIdRetry

\* the reader thread delivers a command while the two calls run
on_command_received_same_id ==
    /\ inbound.uid < MaxSameIdReceived
    /\ on_command_received

InitSameId == InitTwoCallers

SameIdNext ==
    \/ on_command_received_same_id
    \/ \E t \in TwoCallers : get_response_any_id(t)
    \/ \E t \in TwoCallers : remove_old_responses(t)
    \/ \E t \in TwoCallers : submit_request(t)
    \/ \E t \in TwoCallers : poll(t)
    \/ \E t \in TwoCallers : timed_out(t)

SpecSameId == InitSameId /\ [][SameIdNext]_vars

\* the call of thread t has returned a response
C29_Returned(t) == pc[t] = "returned" /\ result[t].kind = "response"

\* C29: a response appended once to the pending buffer is returned by at
\* most one get_response call, also when both callers wait for the same
\* response id and seq_no: no two calls have returned the same entry, and a
\* returned entry is no longer in the buffer.
C29_ReturnedAtMostOnce ==
    /\ \A t \in TwoCallers, u \in TwoCallers :
           (t # u /\ C29_Returned(t) /\ C29_Returned(u)) =>
               result[t].command.uid # result[u].command.uid
    /\ \A t \in TwoCallers :
           C29_Returned(t) =>
               \A i \in 1..Len(received_commands) : received_commands[i] # result[t].command

\* both callers passed the same GET_LINK_LIST_REQUEST, one matching response
\* arrived after both had purged: one call returned it and the other
\* returned None
C29_Witness ==
    /\ request[1] = request[2]
    /\ "seq_no" \in DOMAIN request[1].parameters
    /\ pc[1] = "returned" /\ pc[2] = "returned"
    /\ result[1].kind = "response" /\ result[2] = None
    /\ result[1].command.uid = 1
    /\ inbound.uid = 1

\* the calls of threads t and u expect the same response id and carry
\* different seq_no
C30_SameIdOtherSeqNo(t, u) ==
    /\ t # u
    /\ ResponseId(request[t]) = ResponseId(request[u])
    /\ "seq_no" \in DOMAIN request[t].parameters
    /\ "seq_no" \in DOMAIN request[u].parameters
    /\ request[t].parameters.seq_no # request[u].parameters.seq_no

\* the entries of the buffer that arrived after the latest purge of the call
\* of thread t and carry the call's response id and seq_no
C30_Own(t) ==
    { i \in 1..Len(received_commands) :
         /\ received_commands[i].command_id = ResponseId(request[t])
         /\ "seq_no" \in DOMAIN received_commands[i].parameters
         /\ received_commands[i].parameters.seq_no = request[t].parameters.seq_no
         /\ received_commands[i].uid > call[t].purged_at }

\* C30: of two get_response calls with the same response id and different
\* seq_no, each returns only a response that carries its own seq_no, and a
\* response with the seq_no of a call that has arrived while the call waits
\* is not removed by a step of the other call.
C30_OwnSeqNoOnly ==
    /\ [](\A t \in TwoCallers, u \in TwoCallers :
             (C30_SameIdOtherSeqNo(t, u) /\ C29_Returned(t)) =>
                 result[t].command.parameters.seq_no = request[t].parameters.seq_no)
    /\ [][\A t \in TwoCallers, u \in TwoCallers :
             (/\ C30_SameIdOtherSeqNo(t, u)
              /\ pc[t] = "wait"
              /\ InCall(u)
              /\ pc'[u] # pc[u])
             => \A i \in C30_Own(t) :
                    \E j \in 1..Len(received_commands') :
                        received_commands'[j] = received_commands[i]]_vars

(***************************************************************************)
(* Properties of the frame parser's state.                                 *)
(***************************************************************************)
\* C36: in every state of the frame parser the flags in_dummy and
\* in_command are not both set, the buffer is empty while in_dummy is set,
\* the buffer holds no SYN, and with neither flag set (IDLE) the buffer
\* holds no DMY either.
C36_ParserStateInvariant ==
    /\ ~(parser.in_dummy /\ parser.in_command)
    /\ parser.in_dummy => parser.buffer = <<>>
    /\ \A i \in 1..Len(parser.buffer) : parser.buffer[i] # 126
    /\ (~parser.in_dummy /\ ~parser.in_command) =>
           \A i \in 1..Len(parser.buffer) : parser.buffer[i] # 255

\* the call data_received(b"\x7e\x7e\xff") ended a dummy header and began a
\* command, whose buffer now holds a DMY
C36_Witness ==
    /\ parser.in_command
    /\ parser.buffer = <<255>>
    /\ fed = 5
    /\ data = <<126, 126, 255>>

(***************************************************************************)
(* Loopback: the frames the writer builds, and stray bytes, delivered to   *)
(* the frame parser.                                                       *)
(***************************************************************************)
\* frames looped back in one run
MaxLoopbackFrames == 2
\* stray bytes of one data_received call, and of IDLE's buffer
MaxNoise == 2
\* total number of bytes delivered in one run
MaxLoopbackStream == 40

\* the commands whose frames are looped back: no parameters; seq_no 1;
\* seq_no 0x7E7D (bytes ESC, SYN); seq_no 0x00FF (bytes DMY, 0); seq_no
\* 0x7E7E (bytes SYN, SYN)
LoopbackCommands ==
    WriterCommands
        \cup { [command_id |-> GET_LINK_LIST_REQUEST, parameters |-> [seq_no |-> 255]],
               [command_id |-> GET_LINK_LIST_REQUEST, parameters |-> [seq_no |-> 32382]] }

\* the bytes that are neither DMY nor SYN
NoiseBytes == InboundBytes \ {DMY, SYN}

\* what may precede a frame in one data_received call: nothing, or the
\* stray bytes 03 31 or none, a DMY, and the stray byte 7D or none
NoisePrefixes ==
    {<<>>} \cup { before \o <<DMY>> \o inside :
                     before \in {<<>>, <<3, 49>>}, inside \in {<<>>, <<ESC>>} }

\* data_received of the frame the writer builds for a command, alone or
\* after stray bytes; the parser is between frames or inside a dummy header
frame_looped_back ==
    /\ parser.alive /\ ~parser.in_command
    /\ Len(parser.handled) < MaxLoopbackFrames
    /\ \E cmd \in LoopbackCommands, prefix \in NoisePrefixes :
          /\ fed + Len(prefix) + Len(OutboundFrame(cmd)) <= MaxLoopbackStream
          /\ payload' = to_bytes(cmd)
          /\ escaped' = escape(to_bytes(cmd))
          /\ data' = prefix \o OutboundFrame(cmd)
          /\ fed' = fed + Len(prefix) + Len(OutboundFrame(cmd))
          /\ parser' = DataReceived(parser, prefix \o OutboundFrame(cmd),
                                    command_received_handler)
    /\ UNCHANGED <<command_received_handler, byte_parser, unescaped, esc_pc>>
    /\ UNCHANGED <<writerVars, engineVars, workflowVars>>

\* data_received of stray bytes between frames or inside a dummy header
noise_received ==
    /\ parser.alive /\ ~parser.in_command
    /\ \E chunk \in SeqsUpTo(NoiseBytes, MaxNoise) :
          /\ Len(parser.buffer) + Len(chunk) <= MaxNoise
          /\ fed + Len(chunk) <= MaxLoopbackStream
          /\ data' = chunk
          /\ fed' = fed + Len(chunk)
          /\ parser' = DataReceived(parser, chunk, command_received_handler)
    /\ UNCHANGED <<command_received_handler, byte_parser>>
    /\ UNCHANGED <<escVars, writerVars, engineVars, workflowVars>>

\* data_received(b"\xff"): the beginning of a dummy header
dummy_received ==
    /\ parser.alive /\ ~parser.in_command
    /\ fed + 1 <= MaxLoopbackStream
    /\ data' = <<DMY>>
    /\ fed' = fed + 1
    /\ parser' = DataReceived(parser, <<DMY>>, command_received_handler)
    /\ UNCHANGED <<command_received_handler, byte_parser>>
    /\ UNCHANGED <<escVars, writerVars, engineVars, workflowVars>>

LoopbackNext ==
    \/ set_command_received_handler
    \/ frame_looped_back
    \/ noise_received
    \/ dummy_received

InitLoopback == InitFrame

SpecLoopback == InitLoopback /\ [][LoopbackNext]_vars

\* the step delivers a frame (the shortest has 12 bytes, other calls
\* deliver less), possibly behind stray bytes
C37_FrameStep ==
    /\ fed' = fed + Len(data')
    /\ Len(data') >= 12

\* the parser after the step has handed the payload to the handler, once,
\* and is in IDLE with an empty buffer
C37_Delivered ==
    /\ parser'.alive
    /\ ~parser'.in_dummy /\ ~parser'.in_command
    /\ parser'.buffer = <<>>
    /\ parser'.handled =
           Append(parser.handled,
                  [command_id |-> payload'[1] * 256 + payload'[2],
                   payload |-> SubSeq(payload', 3, Len(payload'))])

\* C37: the escaped payload holds no SYN, and the frame the writer builds
\* for a payload, delivered to a parser in IDLE with an empty buffer, makes
\* the handler be called exactly once, with the payload, and leaves the
\* parser in IDLE with an empty buffer; so does every further frame.
C37_Loopback ==
    [][(/\ command_received_handler
        /\ ~parser.in_dummy /\ ~parser.in_command /\ parser.buffer = <<>>
        /\ C37_FrameStep
        /\ SubSeq(data', 1, 9) = <<255, 255, 255, 255, 255, 255, 255, 126, 126>>)
       => (/\ data' = <<255, 255, 255, 255, 255, 255, 255, 126, 126>>
                          \o escaped' \o <<126>>
           /\ \A i \in 1..Len(escaped') : escaped'[i] # 126
           /\ C37_Delivered)]_vars

\* two frames were looped back, the second for the payload 03 32 7E 7E
C37_Witness ==
    /\ Len(parser.handled) = 2
    /\ payload = <<3, 50, 126, 126>>
    /\ escaped = <<3, 50, 125, 94, 125, 94>>
    /\ parser.handled[2] = [command_id |-> 818, payload |-> <<126, 126>>]
    /\ fed = Len(data) + 12

\* C33: stray bytes are not fatal.  Bytes other than DMY and SYN that
\* arrive in IDLE are appended to the buffer, and the next DMY discards
\* them; inside a dummy header they change neither the state nor the
\* buffer; the handler is not called for them; and the frame that follows
\* is handed to the handler exactly once, without any of them.
C33_NoiseIsDiscarded ==
    [][/\ (fed' # fed /\ \A i \in 1..Len(data') : data'[i] \notin {255, 126}) =>
              IF parser.in_dummy THEN parser' = parser
              ELSE parser' = [parser EXCEPT !.buffer = parser.buffer \o data']
       /\ (fed' # fed /\ data' = <<255>>) =>
              parser' = [parser EXCEPT !.buffer = <<>>, !.in_dummy = TRUE]
       /\ (command_received_handler /\ C37_FrameStep) => C37_Delivered]_vars

\* the second frame arrived in one call behind the stray bytes 03 31 in
\* IDLE, a DMY and the stray byte 7D in the dummy header, while IDLE had a
\* stray byte buffered, and was handed to the handler
C33_Witness ==
    /\ Len(parser.handled) = 2
    /\ data = <<3, 49, 255, 125>> \o <<255, 255, 255, 255, 255, 255, 255, 126, 126>>
                  \o escaped \o <<126>>
    /\ fed = 12 + 1 + Len(data)
    /\ parser.handled[2] = [command_id |-> 818, payload |-> <<125, 126>>]

C38_NoUseOfClearedHandle ==
    /\ [](writer_pc # "error")
    /\ [][~transport => written' = written]_vars

(***************************************************************************)
(* Properties of parse when the bytes run out.                             *)
(***************************************************************************)
\* the field at which n bytes run out: the bytes are used up, whole, by the
\* fixed-length plain fields before it; None when they end elsewhere
RECURSIVE C35_FieldAtEnd(_, _)
C35_FieldAtEnd(templates, n) ==
    IF templates = <<>> THEN None
    ELSE LET template == Head(templates) IN
         IF n = 0 THEN (IF template.type \in {"select:", "ref:"} THEN None ELSE template)
         ELSE IF template.type \in {"select:", "ref:", "array", "object"}
                    \/ "length" \notin DOMAIN template
                    \/ template.length > n
         THEN None
         ELSE C35_FieldAtEnd(Tail(templates), n - template.length)

\* the names of the fields that n bytes hold whole
RECURSIVE C35_DecodedSoFar(_, _)
C35_DecodedSoFar(templates, n) ==
    IF n = 0 \/ templates = <<>> THEN {}
    ELSE (IF "name" \in DOMAIN Head(templates) /\ "value" \notin DOMAIN Head(templates)
          THEN {Head(templates).name} ELSE {})
             \cup C35_DecodedSoFar(Tail(templates), n - Head(templates).length)

C40_CompletedSurvivesAbort ==
    [][(/\ measurement # None
        /\ measurement.end
        /\ client.op = "abort"
        /\ client' # client)
       => measurement' = measurement]_vars

(***************************************************************************)
(* Properties of the two mutexes.                                          *)
(***************************************************************************)
\* C31: every append to, scan of and removal from the pending buffer, by
\* the reader callback, by a get_response caller or by the measurement
\* worker, is made by a thread that holds the pending-buffer mutex.
C31_BufferUnderItsLock ==
    \A a \in accessed :
        a.field = "_received_commands" => "_received_commands_lock" \in a.held

\* C32: every mutation of the session, its creation by
\* start_radio_measurement, the recording of end and count_sent by the
\* worker and its clearing by abort_radio_measurement or by the worker's
\* timeout, is made by a thread that holds the measurement mutex, and that
\* mutex is not the pending-buffer mutex.
C32_SessionUnderItsLock ==
    \A a \in accessed :
        (a.field = "_measurement" /\ a.kind \in {"create", "end", "clear"})
            => /\ "_measurement_lock" \in a.held
               /\ "_received_commands_lock" \notin a.held

\* where a thread sleeps, waits for a response, joins or waits for a lock
LockWaits == {"wait", "join", "acquire", "clear_acquire", "purge_acquire", "poll_acquire",
              "abort_acquire", "abort_clear_acquire"}

\* the bodies of the "with" blocks
LockBodies == {"append", "purge", "poll", "abort_check", "abort_clear", "scan", "clear"}

\* C39: no thread holds both mutexes at once, and no thread sleeps, waits
\* for a response, joins or waits for a mutex while it holds one; hence a
\* mutex that is held is held by a thread inside the body of its block,
\* which runs to the release without waiting: the reader callback, the
\* get_response callers, abort_radio_measurement and the worker do not
\* deadlock.
C39_NoNestedLocksNoWaitUnderLock ==
    /\ \A t \in LockThreads : Holds(t) # {"_received_commands_lock", "_measurement_lock"}
    /\ \A t \in LockThreads : thread[t].pc \in LockWaits => Holds(t) = {}
    /\ \A t \in LockThreads : Holds(t) # {} => thread[t].pc \in LockBodies
    /\ received_commands_lock \in LockThreads \cup {"free"}
    /\ measurement_lock \in LockThreads \cup {"free"}

\* both mutexes are held, by the poller inside its scan and by the worker
\* inside its scan, while the reader waits for the first and the caller,
\* inside abort_radio_measurement, for the second
C39_Witness ==
    /\ received_commands_lock = "poller"
    /\ thread["poller"].pc = "poll"
    /\ thread["reader"].pc = "acquire"
    /\ measurement_lock = "worker"
    /\ thread["worker"].pc = "scan"
    /\ thread["caller"].pc = "abort_acquire"

====
